---------------------------- MODULE Spec2Model ----------------------------
(***************************************************************************)
(* Model of winpr/libwinpr/file/generic.c: the handle-creator registry     *)
(* (CreateFileA, HandleCreatorsInit), the generic operation dispatcher     *)
(* (ReadFile ... SetFileTime) and the directory search engine              *)
(* (FindFirstFileA, FindNextFileA, FindClose).                             *)
(*                                                                         *)
(* The three subsystems share no state in the source, so each has its own  *)
(* specification (SpecRegistry, SpecDispatch, SpecSearch) over its own     *)
(* variables; the variables of the other subsystems stay unchanged.        *)
(***************************************************************************)
EXTENDS Integers, Sequences, FiniteSets, TLC

\* ------------------------------------------------------------------ bounds
\* Number of threads that call CreateFileA.
NThreads == 2
\* Largest value a DWORD-returning handle operation returns.
MaxResult == 2
\* Largest number of entries in the directory that is searched.
MaxEntries == 3
\* Number of FindNextFileA calls counted after a handle is exhausted.
MaxRepeat == 3

\* --------------------------------------------------------------- constants
NULL == "NULL"
INVALID_HANDLE_VALUE == "INVALID_HANDLE_VALUE"
NoError == "NO_ERROR"
ERROR_DLL_INIT_FAILED == "ERROR_DLL_INIT_FAILED"

VARIABLES
    \* ---- registry (generic.c:178-267)
    HandleCreators,             \* NULL or the sequence of registered creators
    HandleCreatorsInitialized,  \* pthread_once_t: "INIT", "RUNNING", "DONE"
    serialAvailable,            \* GetCommHandleCreator() returns non-NULL
    initRuns,                   \* history: how often HandleCreatorsInit was entered
    listLock,                   \* owner of the ArrayList lock, 0 when free
    pc,                         \* per thread: position inside CreateFileA
    lpFileName,                 \* per thread: argument of the running call
    idx,                        \* per thread: loop variable i
    ret,                        \* per thread: value the call returned
    lastError,                  \* per thread: thread-local last-error code
    errSet,                     \* history: SetLastError ran during this call
    asked,                      \* history: creators whose IsHandled ran in this call
    opened,                     \* history: creators whose CreateFileA ran in this call
    afterFail,                  \* history: the call started after a failed init
    requested,                  \* history: indices this call passed to ArrayList_GetItem
    lockCalls,                  \* history: ArrayList_Lock calls of this call
    unlockCalls,                \* history: ArrayList_Unlock calls of this call
    \* ---- dispatcher (generic.c:314-860)
    opsTable,                   \* per handle: the entries of handle->ops that are set
    hstate,                     \* per handle: state of the object behind the handle
    dcall,                      \* the dispatcher call made last, and what it did
    \* ---- directory search (generic.c:862-1225)
    dirEntries,                 \* the entries of the directory, in stream order
    search,                     \* per address: the WIN32_FILE_SEARCH stored there
    heap,                       \* allocations outstanding: structs, strings, streams
    corrupt,                    \* freed memory was used as a live search handle
    searchLastError,            \* last-error code of the thread that searches
    scall,                      \* the search call made last, and what it did
    shist,                      \* history per handle: entries reported, ...
    \* ---- MoveFileExA, MoveFileA (generic.c:1286-1342)
    files,                      \* per path: the file found there, if any
    mcall,                      \* the move call in progress or made last
    moveLastError,              \* last-error code of the thread that moves
    \* ---- FindDataFromStat on its own (generic.c:938-981)
    fdcall,                     \* the FindDataFromStat call made last
    \* ---- SetFileAttributesA, GetFileAttributesA (generic.c:517-527, 611-648)
    acall,                      \* the attribute call made last, and its result
    aset,                       \* per file: what SetFileAttributesA asked last
    \* ---- CreateDirectoryA, RemoveDirectoryA (generic.c:1227-1265)
    dirs,                       \* the directories that exist
    dircall,                    \* the directory call made last
    dirLastError,               \* last-error code of the thread that calls
    \* ---- the wide entry points (generic.c:269-289, 498-544, 650-668, 1046-1200,
    \* ---- 1236-1337)
    wcall,                      \* the wide call made last, beside its narrow call
    \* ---- the OSS capture device (audin_oss.c:141-338)
    oss,                        \* the fields of the AudinOSSDevice
    stopEventSet,               \* the stop event is signalled
    captureThread,              \* position and locals of audin_oss_thread_func
    delivered,                  \* what the receive callback was last given
    osscall                     \* the device call made last, and its result

regVars == <<HandleCreators, HandleCreatorsInitialized, serialAvailable, initRuns,
             listLock, pc, lpFileName, idx, ret, lastError, errSet, asked, opened,
             afterFail, requested, lockCalls, unlockCalls>>

dispVars == <<opsTable, hstate, dcall>>

searchVars == <<dirEntries, search, heap, corrupt, searchLastError, scall, shist>>

moveVars == <<files, mcall, moveLastError>>

attrVars == <<acall, aset>>
dirVars == <<dirs, dircall, dirLastError>>

audinVars == <<oss, stopEventSet, captureThread, delivered, osscall>>

vars == <<regVars, dispVars, searchVars, moveVars, fdcall, attrVars, dirVars, wcall, audinVars>>

nonRegVars == <<dispVars, searchVars, moveVars, fdcall, attrVars, dirVars, wcall, audinVars>>
nonDispVars == <<regVars, searchVars, moveVars, fdcall, attrVars, dirVars, wcall, audinVars>>
nonSearchVars == <<regVars, dispVars, moveVars, fdcall, attrVars, dirVars, wcall, audinVars>>
nonMoveVars == <<regVars, dispVars, searchVars, fdcall, attrVars, dirVars, wcall, audinVars>>
nonFindDataVars == <<regVars, dispVars, searchVars, moveVars, attrVars, dirVars, wcall, audinVars>>
nonDirVars == <<regVars, dispVars, searchVars, moveVars, fdcall, attrVars, wcall, audinVars>>
nonAttrVars == <<regVars, dispVars, moveVars, fdcall, dirVars, wcall, audinVars>>
nonWideVars == <<regVars, dispVars, searchVars, moveVars, fdcall, attrVars, dirVars, audinVars>>
nonAudinVars == <<regVars, dispVars, searchVars, moveVars, fdcall, attrVars, dirVars, wcall>>

Threads == 1..NThreads

\* ------------------------------------------------------------------------
\* Registry
\* ------------------------------------------------------------------------

\* File names the callers pass.  "pipe" stands for a named-pipe path,
\* "com" for a serial device path, "none" for a path nobody claims.
FileNames == {NULL, "pipe", "com", "none"}

\* creator->IsHandled(lpFileName) of the three creators.  The file creator
\* also claims the pipe and serial paths, so several creators match them.
IsHandled(creator, name) ==
    CASE creator = "pipe" -> name = "pipe"
      [] creator = "comm" -> name = "com"
      [] creator = "file" -> name \in {"pipe", "com"}
      [] OTHER -> FALSE

\* The handle creator->CreateFileA returns on success.
HandleOf(creator) ==
    CASE creator = "pipe" -> "pipe_handle"
      [] creator = "comm" -> "comm_handle"
      [] OTHER -> "file_handle"

\* Mutant of RegistrationOrder: the regular-file creator is registered first.
RegistrationOrder_fileFirst == <<"file", "comm", "pipe">>

\* Order of the ArrayList_Append calls in HandleCreatorsInit.
RegistrationOrder == <<"pipe", "comm", "file">>

\* ArrayList_Count
ArrayList_Count(list) == Len(list)

\* ArrayList_GetItem: NULL for an index that is not below the size.
\* Indices are 0-based as in the source.
ArrayList_GetItem(list, i) == IF i < Len(list) THEN list[i + 1] ELSE NULL

InitFailed == HandleCreatorsInitialized = "DONE" /\ HandleCreators = NULL

RegInit ==
    /\ HandleCreators = NULL
    /\ HandleCreatorsInitialized = "INIT"
    /\ serialAvailable \in BOOLEAN
    /\ initRuns = 0
    /\ listLock = 0
    /\ pc = [t \in Threads |-> "idle"]
    /\ lpFileName = [t \in Threads |-> NULL]
    /\ idx = [t \in Threads |-> 0]
    /\ ret = [t \in Threads |-> "none"]
    /\ lastError = [t \in Threads |-> NoError]
    /\ errSet = [t \in Threads |-> FALSE]
    /\ asked = [t \in Threads |-> {}]
    /\ opened = [t \in Threads |-> {}]
    /\ afterFail = [t \in Threads |-> FALSE]
    /\ requested = [t \in Threads |-> {}]
    /\ lockCalls = [t \in Threads |-> 0]
    /\ unlockCalls = [t \in Threads |-> 0]

\* CreateFileA entry: the null check of lpFileName (lines 234-235).
CreateFileA_Enter(t, name) ==
    /\ UNCHANGED nonRegVars
    /\ pc[t] = "idle"
    /\ lpFileName' = [lpFileName EXCEPT ![t] = name]
    /\ errSet' = [errSet EXCEPT ![t] = FALSE]
    /\ asked' = [asked EXCEPT ![t] = {}]
    /\ opened' = [opened EXCEPT ![t] = {}]
    /\ afterFail' = [afterFail EXCEPT ![t] = InitFailed]
    /\ requested' = [requested EXCEPT ![t] = {}]
    /\ lockCalls' = [lockCalls EXCEPT ![t] = 0]
    /\ unlockCalls' = [unlockCalls EXCEPT ![t] = 0]
    /\ idx' = [idx EXCEPT ![t] = 0]
    /\ IF name = NULL
       THEN /\ ret' = [ret EXCEPT ![t] = INVALID_HANDLE_VALUE]
            /\ pc' = [pc EXCEPT ![t] = "ret"]
       ELSE /\ ret' = [ret EXCEPT ![t] = "none"]
            /\ pc' = [pc EXCEPT ![t] = "once"]
    /\ UNCHANGED <<HandleCreators, HandleCreatorsInitialized, serialAvailable,
                   initRuns, listLock, lastError>>

\* Mutant of OnceBlocked: callers do not wait for the running initializer.
OnceBlocked_noWait(t) == FALSE

\* pthread_once: a caller that finds the initializer running blocks until
\* it has completed.
OnceBlocked(t) == HandleCreatorsInitialized = "RUNNING"

\* pthread_once(&HandleCreatorsInitialized, HandleCreatorsInit) (line 237).
\* The first caller runs the initializer; every other caller continues
\* once the initializer has completed.  pthread_once returns 0 for a valid
\* once-control, so the branch of lines 238-241 is not taken.
PthreadOnce(t) ==
    /\ UNCHANGED nonRegVars
    /\ pc[t] = "once"
    /\ ~OnceBlocked(t)
    /\ IF HandleCreatorsInitialized = "INIT"
       THEN /\ HandleCreatorsInitialized' = "RUNNING"
            /\ initRuns' = initRuns + 1
            /\ pc' = [pc EXCEPT ![t] = "init_new"]
       ELSE /\ pc' = [pc EXCEPT ![t] = "check"]
            /\ UNCHANGED <<HandleCreatorsInitialized, initRuns>>
    /\ UNCHANGED <<HandleCreators, serialAvailable, listLock, lpFileName, idx, ret,
                   lastError, errSet, asked, opened, afterFail, requested,
                   lockCalls, unlockCalls>>

\* Mutant of HandleCreatorsInit_New: a failed allocation leaves the
\* once-control unset, so that a later call runs the initializer again.
HandleCreatorsInit_New_retry(t) ==
    /\ UNCHANGED nonRegVars
    /\ pc[t] = "init_new"
    /\ \E allocOk \in BOOLEAN :
          IF allocOk
          THEN /\ HandleCreators' = <<>>
               /\ pc' = [pc EXCEPT ![t] = "init_1"]
               /\ UNCHANGED HandleCreatorsInitialized
          ELSE /\ UNCHANGED HandleCreators
               /\ HandleCreatorsInitialized' = "INIT"
               /\ pc' = [pc EXCEPT ![t] = "check"]
    /\ UNCHANGED <<serialAvailable, initRuns, listLock, lpFileName, idx, ret,
                   lastError, errSet, asked, opened, afterFail, requested,
                   lockCalls, unlockCalls>>

\* HandleCreatorsInit: ArrayList_New(TRUE) and the NULL check (lines 187-191).
HandleCreatorsInit_New(t) ==
    /\ UNCHANGED nonRegVars
    /\ pc[t] = "init_new"
    /\ \E allocOk \in BOOLEAN :
          IF allocOk
          THEN /\ HandleCreators' = <<>>
               /\ pc' = [pc EXCEPT ![t] = "init_1"]
               /\ UNCHANGED HandleCreatorsInitialized
          ELSE /\ UNCHANGED HandleCreators
               /\ HandleCreatorsInitialized' = "DONE"
               /\ pc' = [pc EXCEPT ![t] = "check"]
    /\ UNCHANGED <<serialAvailable, initRuns, listLock, lpFileName, idx, ret,
                   lastError, errSet, asked, opened, afterFail, requested,
                   lockCalls, unlockCalls>>

\* HandleCreatorsInit: the k-th registration (lines 196-200).  The serial
\* creator is appended only when GetCommHandleCreator() returned one.
HandleCreatorsInit_Append(t, k) ==
    /\ UNCHANGED nonRegVars
    /\ pc[t] = <<"init_1", "init_2", "init_3">>[k]
    /\ LET creator == RegistrationOrder[k]
       IN  IF creator = "comm" /\ ~serialAvailable
           THEN UNCHANGED HandleCreators
           ELSE HandleCreators' = Append(HandleCreators, creator)
    /\ IF k < 3
       THEN /\ pc' = [pc EXCEPT ![t] = <<"init_1", "init_2", "init_3">>[k + 1]]
            /\ UNCHANGED HandleCreatorsInitialized
       ELSE /\ pc' = [pc EXCEPT ![t] = "check"]
            /\ HandleCreatorsInitialized' = "DONE"
    /\ UNCHANGED <<serialAvailable, initRuns, listLock, lpFileName, idx, ret,
                   lastError, errSet, asked, opened, afterFail, requested,
                   lockCalls, unlockCalls>>

\* CreateFileA: the HandleCreators == NULL check (lines 243-247).
CreateFileA_CheckList(t) ==
    /\ UNCHANGED nonRegVars
    /\ pc[t] = "check"
    /\ IF HandleCreators = NULL
       THEN /\ lastError' = [lastError EXCEPT ![t] = ERROR_DLL_INIT_FAILED]
            /\ errSet' = [errSet EXCEPT ![t] = TRUE]
            /\ ret' = [ret EXCEPT ![t] = INVALID_HANDLE_VALUE]
            /\ pc' = [pc EXCEPT ![t] = "ret"]
       ELSE /\ pc' = [pc EXCEPT ![t] = "lock"]
            /\ UNCHANGED <<lastError, errSet, ret>>
    /\ UNCHANGED <<HandleCreators, HandleCreatorsInitialized, serialAvailable,
                   initRuns, listLock, lpFileName, idx, asked, opened, afterFail,
                   requested, lockCalls, unlockCalls>>

\* ArrayList_Lock(HandleCreators) (line 249): blocks while another thread
\* holds the lock of the synchronized list.
CreateFileA_Lock(t) ==
    /\ UNCHANGED nonRegVars
    /\ pc[t] = "lock"
    /\ listLock = 0
    /\ listLock' = t
    /\ lockCalls' = [lockCalls EXCEPT ![t] = @ + 1]
    /\ idx' = [idx EXCEPT ![t] = 0]
    /\ pc' = [pc EXCEPT ![t] = "loop"]
    /\ UNCHANGED <<HandleCreators, HandleCreatorsInitialized, serialAvailable,
                   initRuns, lpFileName, ret, lastError, errSet, asked, opened,
                   afterFail, requested, unlockCalls>>

\* Mutant of ArrayList_Unlock: the lock is kept.
ArrayList_Unlock_kept(t) == UNCHANGED <<listLock, unlockCalls>>

\* ArrayList_Unlock(HandleCreators) (lines 260 and 265).
ArrayList_Unlock(t) ==
    /\ listLock' = 0
    /\ unlockCalls' = [unlockCalls EXCEPT ![t] = @ + 1]

\* One iteration of the resolution loop (lines 251-263), or its exit
\* (lines 265-266) when i <= ArrayList_Count(HandleCreators) is false.
CreateFileA_Loop(t) ==
    /\ UNCHANGED nonRegVars
    /\ pc[t] = "loop"
    /\ IF idx[t] <= ArrayList_Count(HandleCreators)
       THEN LET creator == ArrayList_GetItem(HandleCreators, idx[t])
            IN  /\ requested' = [requested EXCEPT ![t] = @ \cup {idx[t]}]
                /\ IF creator # NULL /\ IsHandled(creator, lpFileName[t])
                   THEN /\ asked' = [asked EXCEPT ![t] = @ \cup {creator}]
                        /\ opened' = [opened EXCEPT ![t] = @ \cup {creator}]
                        /\ \E newHandle \in {HandleOf(creator), INVALID_HANDLE_VALUE} :
                              ret' = [ret EXCEPT ![t] = newHandle]
                        /\ ArrayList_Unlock(t)
                        /\ pc' = [pc EXCEPT ![t] = "ret"]
                        /\ UNCHANGED idx
                   ELSE /\ asked' = [asked EXCEPT ![t] =
                                        IF creator # NULL THEN @ \cup {creator} ELSE @]
                        /\ idx' = [idx EXCEPT ![t] = @ + 1]
                        /\ UNCHANGED <<opened, ret, listLock, unlockCalls, pc>>
       ELSE /\ ArrayList_Unlock(t)
            /\ ret' = [ret EXCEPT ![t] = INVALID_HANDLE_VALUE]
            /\ pc' = [pc EXCEPT ![t] = "ret"]
            /\ UNCHANGED <<asked, opened, idx, requested>>
    /\ UNCHANGED <<HandleCreators, HandleCreatorsInitialized, serialAvailable,
                   initRuns, lpFileName, lastError, errSet, afterFail, lockCalls>>

\* The call has returned; the thread is free to call again.
CreateFileA_Return(t) ==
    /\ UNCHANGED nonRegVars
    /\ pc[t] = "ret"
    /\ pc' = [pc EXCEPT ![t] = "idle"]
    /\ ret' = [ret EXCEPT ![t] = "none"]
    /\ lpFileName' = [lpFileName EXCEPT ![t] = NULL]
    /\ idx' = [idx EXCEPT ![t] = 0]
    /\ errSet' = [errSet EXCEPT ![t] = FALSE]
    /\ asked' = [asked EXCEPT ![t] = {}]
    /\ opened' = [opened EXCEPT ![t] = {}]
    /\ afterFail' = [afterFail EXCEPT ![t] = FALSE]
    /\ requested' = [requested EXCEPT ![t] = {}]
    /\ lockCalls' = [lockCalls EXCEPT ![t] = 0]
    /\ unlockCalls' = [unlockCalls EXCEPT ![t] = 0]
    /\ UNCHANGED <<HandleCreators, HandleCreatorsInitialized, serialAvailable,
                   initRuns, listLock, lastError>>

RegStep ==
    \E t \in Threads :
        \/ \E name \in FileNames : CreateFileA_Enter(t, name)
        \/ PthreadOnce(t)
        \/ HandleCreatorsInit_New(t)
        \/ \E k \in 1..3 : HandleCreatorsInit_Append(t, k)
        \/ CreateFileA_CheckList(t)
        \/ CreateFileA_Lock(t)
        \/ CreateFileA_Loop(t)
        \/ CreateFileA_Return(t)

\* ------------------------------------------------------------------------
\* Dispatcher
\* ------------------------------------------------------------------------

\* Handle values the callers pass: NULL, the invalid sentinel, two handles.
DHandles == {"h1", "h2"}
DHandleValues == {NULL, INVALID_HANDLE_VALUE} \cup DHandles

\* The entries of HANDLE_OPS the entry points of generic.c forward to.
OpNames == {"ReadFile", "ReadFileEx", "ReadFileScatter", "WriteFile", "WriteFileEx",
            "WriteFileGather", "FlushFileBuffers", "GetFileInformationByHandle",
            "SetEndOfFile", "GetFileSize", "SetFilePointer", "SetFilePointerEx",
            "LockFile", "LockFileEx", "UnlockFile", "UnlockFileEx", "SetFileTime"}

\* Operations that return a DWORD instead of a BOOL.
DwordOps == {"GetFileSize", "SetFilePointer"}

\* Operation tables a handle kind may carry: every entry set, only read and
\* write set, or no entry set.
OpsTables == {OpNames, {"ReadFile", "WriteFile"}, {}}

\* The caller's arguments: the two nullable pointers ReadFile and WriteFile
\* take (bytes-transferred output, overlapped); the other entry points carry
\* them as opaque arguments.
ArgSet == [lpNumberOfBytes : {NULL, "out"}, lpOverlapped : {NULL, "ov"}]

\* Values the handle's operation may return.
Results(op) == IF op \in DwordOps THEN 0..MaxResult ELSE {0, 1}

NoCall == [op |-> "none", hFile |-> NULL, args |-> [lpNumberOfBytes |-> NULL,
           lpOverlapped |-> NULL], ret |-> 0, getInfo |-> FALSE, opsRead |-> FALSE,
           fwd |-> <<>>, calleeRet |-> 0, before |-> [h \in DHandles |-> FALSE]]

DispInit ==
    /\ opsTable \in [DHandles -> OpsTables]
    /\ hstate = [h \in DHandles |-> FALSE]
    /\ dcall = NoCall

DispIdle ==
    /\ opsTable = [h \in DHandles |-> OpNames]
    /\ hstate = [h \in DHandles |-> FALSE]
    /\ dcall = NoCall

\* winpr_Handle_GetInfo: fails for NULL and for INVALID_HANDLE_VALUE.
winpr_Handle_GetInfo(hFile) == hFile \in DHandles

\* What a call that returns before it forwards leaves behind.
Rejected(op, hFile, args, gotInfo, readOps) ==
    /\ dcall' = [op |-> op, hFile |-> hFile, args |-> args, ret |-> 0,
                 getInfo |-> gotInfo, opsRead |-> readOps, fwd |-> <<>>,
                 calleeRet |-> 0, before |-> hstate]
    /\ UNCHANGED hstate

\* Mutant of Dispatch: the INVALID_HANDLE_VALUE check is missing.
Dispatch_noInvalidCheck(op, hFile, args, badArgs) ==
    IF badArgs
    THEN Rejected(op, hFile, args, FALSE, FALSE)
    ELSE IF ~winpr_Handle_GetInfo(hFile)
    THEN Rejected(op, hFile, args, TRUE, FALSE)
    ELSE IF op \in opsTable[hFile]
    THEN \E result \in Results(op), newState \in BOOLEAN :
            /\ dcall' = [op |-> op, hFile |-> hFile, args |-> args, ret |-> result,
                         getInfo |-> TRUE, opsRead |-> TRUE,
                         fwd |-> <<[op |-> op, handle |-> hFile, args |-> args]>>,
                         calleeRet |-> result, before |-> hstate]
            /\ hstate' = [hstate EXCEPT ![hFile] = newState]
    ELSE Rejected(op, hFile, args, TRUE, TRUE)

\* Mutant of Dispatch: an absent entry is reported as success.
Dispatch_absentSucceeds(op, hFile, args, badArgs) ==
    IF hFile = INVALID_HANDLE_VALUE
    THEN Rejected(op, hFile, args, FALSE, FALSE)
    ELSE IF badArgs
    THEN Rejected(op, hFile, args, FALSE, FALSE)
    ELSE IF ~winpr_Handle_GetInfo(hFile)
    THEN Rejected(op, hFile, args, TRUE, FALSE)
    ELSE IF op \in opsTable[hFile]
    THEN \E result \in Results(op), newState \in BOOLEAN :
            /\ dcall' = [op |-> op, hFile |-> hFile, args |-> args, ret |-> result,
                         getInfo |-> TRUE, opsRead |-> TRUE,
                         fwd |-> <<[op |-> op, handle |-> hFile, args |-> args]>>,
                         calleeRet |-> result, before |-> hstate]
            /\ hstate' = [hstate EXCEPT ![hFile] = newState]
    ELSE /\ dcall' = [op |-> op, hFile |-> hFile, args |-> args, ret |-> 1,
                      getInfo |-> TRUE, opsRead |-> TRUE, fwd |-> <<>>,
                      calleeRet |-> 0, before |-> hstate]
         /\ UNCHANGED hstate

\* Mutant of Dispatch: the result of the handle's operation is reduced to a
\* BOOL before it is returned.
Dispatch_boolResult(op, hFile, args, badArgs) ==
    IF hFile = INVALID_HANDLE_VALUE
    THEN Rejected(op, hFile, args, FALSE, FALSE)
    ELSE IF badArgs
    THEN Rejected(op, hFile, args, FALSE, FALSE)
    ELSE IF ~winpr_Handle_GetInfo(hFile)
    THEN Rejected(op, hFile, args, TRUE, FALSE)
    ELSE IF op \in opsTable[hFile]
    THEN \E result \in Results(op), newState \in BOOLEAN :
            /\ dcall' = [op |-> op, hFile |-> hFile, args |-> args,
                         ret |-> IF result # 0 THEN 1 ELSE 0,
                         getInfo |-> TRUE, opsRead |-> TRUE,
                         fwd |-> <<[op |-> op, handle |-> hFile, args |-> args]>>,
                         calleeRet |-> result, before |-> hstate]
            /\ hstate' = [hstate EXCEPT ![hFile] = newState]
    ELSE Rejected(op, hFile, args, TRUE, TRUE)

\* The body every dispatcher entry point shares:
\*   if (hFile == INVALID_HANDLE_VALUE) return FALSE;
\*   [ReadFile only: the argument check, badArgs]
\*   if (!winpr_Handle_GetInfo(hFile, &Type, &handle)) return FALSE;
\*   if (handle->ops->Op) return handle->ops->Op(handle, args...);
\*   WLog_ERR(...); return FALSE (or 0);
\* The handle's operation is outside generic.c: it returns any value of its
\* type and may change the state of the object behind the handle.
Dispatch(op, hFile, args, badArgs) ==
    IF hFile = INVALID_HANDLE_VALUE
    THEN Rejected(op, hFile, args, FALSE, FALSE)
    ELSE IF badArgs
    THEN Rejected(op, hFile, args, FALSE, FALSE)
    ELSE IF ~winpr_Handle_GetInfo(hFile)
    THEN Rejected(op, hFile, args, TRUE, FALSE)
    ELSE IF op \in opsTable[hFile]
    THEN \E result \in Results(op), newState \in BOOLEAN :
            /\ dcall' = [op |-> op, hFile |-> hFile, args |-> args, ret |-> result,
                         getInfo |-> TRUE, opsRead |-> TRUE,
                         fwd |-> <<[op |-> op, handle |-> hFile, args |-> args]>>,
                         calleeRet |-> result, before |-> hstate]
            /\ hstate' = [hstate EXCEPT ![hFile] = newState]
    ELSE Rejected(op, hFile, args, TRUE, TRUE)

\* ReadFile rejects a call whose lpNumberOfBytesRead and lpOverlapped are
\* both NULL (lines 328-329); no other entry point checks its arguments.
ReadFile(hFile, args) ==
    /\ Dispatch("ReadFile", hFile, args,
                args.lpNumberOfBytes = NULL /\ args.lpOverlapped = NULL)
    /\ UNCHANGED <<opsTable, nonDispVars>>

\* ReadFileEx (lines 344-364)
ReadFileEx(hFile, args) ==
    /\ Dispatch("ReadFileEx", hFile, args, FALSE)
    /\ UNCHANGED <<opsTable, nonDispVars>>

\* ReadFileScatter (lines 366-386)
ReadFileScatter(hFile, args) ==
    /\ Dispatch("ReadFileScatter", hFile, args, FALSE)
    /\ UNCHANGED <<opsTable, nonDispVars>>

\* WriteFile (lines 388-408)
WriteFile(hFile, args) ==
    /\ Dispatch("WriteFile", hFile, args, FALSE)
    /\ UNCHANGED <<opsTable, nonDispVars>>

\* WriteFileEx (lines 410-430)
WriteFileEx(hFile, args) ==
    /\ Dispatch("WriteFileEx", hFile, args, FALSE)
    /\ UNCHANGED <<opsTable, nonDispVars>>

\* WriteFileGather (lines 432-452)
WriteFileGather(hFile, args) ==
    /\ Dispatch("WriteFileGather", hFile, args, FALSE)
    /\ UNCHANGED <<opsTable, nonDispVars>>

\* FlushFileBuffers (lines 454-472)
FlushFileBuffers(hFile, args) ==
    /\ Dispatch("FlushFileBuffers", hFile, args, FALSE)
    /\ UNCHANGED <<opsTable, nonDispVars>>

\* GetFileInformationByHandle (lines 546-564)
GetFileInformationByHandle(hFile, args) ==
    /\ Dispatch("GetFileInformationByHandle", hFile, args, FALSE)
    /\ UNCHANGED <<opsTable, nonDispVars>>

\* SetEndOfFile (lines 669-687)
SetEndOfFile(hFile, args) ==
    /\ Dispatch("SetEndOfFile", hFile, args, FALSE)
    /\ UNCHANGED <<opsTable, nonDispVars>>

\* GetFileSize (lines 689-707)
GetFileSize(hFile, args) ==
    /\ Dispatch("GetFileSize", hFile, args, FALSE)
    /\ UNCHANGED <<opsTable, nonDispVars>>

\* SetFilePointer (lines 709-729)
SetFilePointer(hFile, args) ==
    /\ Dispatch("SetFilePointer", hFile, args, FALSE)
    /\ UNCHANGED <<opsTable, nonDispVars>>

\* SetFilePointerEx (lines 731-751)
SetFilePointerEx(hFile, args) ==
    /\ Dispatch("SetFilePointerEx", hFile, args, FALSE)
    /\ UNCHANGED <<opsTable, nonDispVars>>

\* LockFile (lines 753-773)
LockFile(hFile, args) ==
    /\ Dispatch("LockFile", hFile, args, FALSE)
    /\ UNCHANGED <<opsTable, nonDispVars>>

\* LockFileEx (lines 775-795)
LockFileEx(hFile, args) ==
    /\ Dispatch("LockFileEx", hFile, args, FALSE)
    /\ UNCHANGED <<opsTable, nonDispVars>>

\* UnlockFile (lines 797-817)
UnlockFile(hFile, args) ==
    /\ Dispatch("UnlockFile", hFile, args, FALSE)
    /\ UNCHANGED <<opsTable, nonDispVars>>

\* UnlockFileEx (lines 819-839)
UnlockFileEx(hFile, args) ==
    /\ Dispatch("UnlockFileEx", hFile, args, FALSE)
    /\ UNCHANGED <<opsTable, nonDispVars>>

\* SetFileTime (lines 841-860)
SetFileTime(hFile, args) ==
    /\ Dispatch("SetFileTime", hFile, args, FALSE)
    /\ UNCHANGED <<opsTable, nonDispVars>>

DispStep ==
    \E hFile \in DHandleValues, args \in ArgSet :
        \/ ReadFile(hFile, args)
        \/ ReadFileEx(hFile, args)
        \/ ReadFileScatter(hFile, args)
        \/ WriteFile(hFile, args)
        \/ WriteFileEx(hFile, args)
        \/ WriteFileGather(hFile, args)
        \/ FlushFileBuffers(hFile, args)
        \/ GetFileInformationByHandle(hFile, args)
        \/ SetEndOfFile(hFile, args)
        \/ GetFileSize(hFile, args)
        \/ SetFilePointer(hFile, args)
        \/ SetFilePointerEx(hFile, args)
        \/ LockFile(hFile, args)
        \/ LockFileEx(hFile, args)
        \/ UnlockFile(hFile, args)
        \/ UnlockFileEx(hFile, args)
        \/ SetFileTime(hFile, args)

\* ------------------------------------------------------------------------
\* Directory search
\* ------------------------------------------------------------------------

\* Strings are sequences of one-character strings.
Sep == "/"

\* strrchr(s, c): the index of the last c in s, 0 when there is none.
strrchr(s, c) ==
    IF \E i \in 1..Len(s) : s[i] = c
    THEN CHOOSE i \in 1..Len(s) : s[i] = c /\ \A j \in (i + 1)..Len(s) : s[j] # c
    ELSE 0

\* FilePatternMatchA: '*' matches zero or more characters, '?' exactly one,
\* every other character itself; the whole name has to match.
RECURSIVE FilePatternMatchA(_, _)
FilePatternMatchA(name, pattern) ==
    IF pattern = <<>> THEN name = <<>>
    ELSE IF Head(pattern) = "*"
    THEN \/ FilePatternMatchA(name, Tail(pattern))
         \/ (name # <<>> /\ FilePatternMatchA(Tail(name), pattern))
    ELSE /\ name # <<>>
         /\ (Head(pattern) = "?" \/ Head(pattern) = Head(name))
         /\ FilePatternMatchA(Tail(name), Tail(pattern))

\* 64-bit and 32-bit quantities are sequences of 16-bit limbs, most
\* significant first: four limbs for a UINT64, two for a DWORD.
Zero32 == <<0, 0>>

\* (UINT64) >> 32
High32(v) == <<v[1], v[2]>>

\* Mutant of Low32: only the low 16 bits are kept.
Low32_16bit(v) == <<0, v[4]>>

\* (UINT64) & 0xFFFFFFFF
Low32(v) == <<v[3], v[4]>>

\* const WIN32_FIND_DATAA empty = { 0 };
EmptyFindData ==
    [dwFileAttributes |-> {}, cFileName |-> <<>>,
     ftCreationTime |-> [dwHighDateTime |-> Zero32, dwLowDateTime |-> Zero32],
     ftLastAccessTime |-> [dwHighDateTime |-> Zero32, dwLowDateTime |-> Zero32],
     ftLastWriteTime |-> [dwHighDateTime |-> Zero32, dwLowDateTime |-> Zero32],
     nFileSizeHigh |-> Zero32, nFileSizeLow |-> Zero32]

\* The entries a directory may hold, each with the result of stat on it:
\* ok (stat succeeds), kind of the mode, owner-write bit, size, and the three
\* times already converted by STAT_TIME_TO_FILETIME.
EntryList ==
    << [name |-> <<"a">>, ok |-> TRUE, kind |-> "reg", wusr |-> TRUE,
        size |-> <<0, 0, 0, 5>>, ctime |-> <<1, 2, 3, 4>>, mtime |-> <<1, 2, 3, 5>>,
        atime |-> <<1, 2, 3, 6>>],
       [name |-> <<"b">>, ok |-> TRUE, kind |-> "fifo", wusr |-> TRUE,
        size |-> <<0, 0, 0, 0>>, ctime |-> <<1, 4, 0, 0>>, mtime |-> <<1, 4, 0, 1>>,
        atime |-> <<1, 4, 0, 2>>],
       [name |-> <<"a", "b">>, ok |-> TRUE, kind |-> "dir", wusr |-> TRUE,
        size |-> <<0, 0, 1, 0>>, ctime |-> <<1, 2, 0, 0>>, mtime |-> <<1, 2, 0, 1>>,
        atime |-> <<1, 2, 0, 2>>],
       [name |-> <<"a", "a">>, ok |-> FALSE, kind |-> "reg", wusr |-> TRUE,
        size |-> <<0, 0, 0, 0>>, ctime |-> <<0, 0, 0, 0>>, mtime |-> <<0, 0, 0, 0>>,
        atime |-> <<0, 0, 0, 0>>],
       [name |-> <<".", "a">>, ok |-> TRUE, kind |-> "reg", wusr |-> FALSE,
        size |-> <<0, 1, 0, 0>>, ctime |-> <<1, 3, 0, 0>>, mtime |-> <<1, 3, 0, 1>>,
        atime |-> <<1, 3, 0, 2>>] >>

EntryPool == {EntryList[i] : i \in 1..Len(EntryList)}

\* Directory streams: sequences of at most MaxEntries entries with distinct
\* names.
RECURSIVE SubSeqsOf(_)
SubSeqsOf(s) ==
    IF s = <<>> THEN {<<>>}
    ELSE LET rest == SubSeqsOf(Tail(s))
         IN  rest \cup {<<Head(s)>> \o r : r \in rest}

Directories == {d \in SubSeqsOf(EntryList) : Len(d) <= MaxEntries}

\* The file system: "/" cannot be opened as a directory, "/d" is the
\* directory that holds dirEntries, "/p" is a directory that cannot be
\* opened, "/f" is a regular file.  Nothing else exists.
StripSlash(path) ==
    IF Len(path) > 1 /\ path[Len(path)] = Sep THEN SubSeq(path, 1, Len(path) - 1)
    ELSE path

\* opendir(path) succeeds
opendir(path) == StripSlash(path) = <<"/", "d">>

FailedStat == [ok |-> FALSE, kind |-> "none", wusr |-> FALSE,
               size |-> <<0, 0, 0, 0>>, ctime |-> <<0, 0, 0, 0>>,
               mtime |-> <<0, 0, 0, 0>>, atime |-> <<0, 0, 0, 0>>]

DirStat == [ok |-> TRUE, kind |-> "dir", wusr |-> TRUE,
            size |-> <<0, 0, 0, 0>>, ctime |-> <<1, 0, 0, 0>>,
            mtime |-> <<1, 0, 0, 0>>, atime |-> <<1, 0, 0, 0>>]

\* stat(path, &fileStat)
stat(path) ==
    IF StripSlash(path) \in {<<"/", "d">>, <<"/", "p">>} THEN DirStat
    ELSE IF path = <<"/", "f">> THEN [DirStat EXCEPT !.kind = "reg"]
    ELSE IF \E i \in 1..Len(dirEntries) : path = <<"/", "d", "/">> \o dirEntries[i].name
    THEN LET i == CHOOSE i \in 1..Len(dirEntries) :
                      path = <<"/", "d", "/">> \o dirEntries[i].name
             e == dirEntries[i]
         IN  IF e.ok
             THEN [ok |-> TRUE, kind |-> e.kind, wusr |-> e.wusr, size |-> e.size,
                   ctime |-> e.ctime, mtime |-> e.mtime, atime |-> e.atime]
             ELSE FailedStat
    ELSE FailedStat

\* Mutant of MappedStatError: SetLastError is not called.
MappedStatError_unset == "unchanged"

\* map_posix_err(errno) after a failed stat
MappedStatError == "ERROR_FILE_NOT_FOUND"

\* S_ISDIR(fileStat->st_mode) (line 945).
S_ISDIR(fileStat) == fileStat.kind = "dir"

\* Mutant of OwnerMayWrite: any write bit counts.
OwnerMayWrite_anyWriter(fileStat) == fileStat.wusr \/ fileStat.wgrp \/ fileStat.woth

\* fileStat->st_mode & S_IWUSR (line 962).
OwnerMayWrite(fileStat) == fileStat.wusr

\* The time FindDataFromStat takes as creation time (lines 965-969):
\* st_birthtime where struct stat has it (_DARWIN_FEATURE_64_BIT_INODE),
\* st_ctime elsewhere.
CreationTimeOf(fileStat) ==
    IF "birthtime" \in DOMAIN fileStat THEN fileStat.birthtime ELSE fileStat.ctime

\* FindDataFromStat (lines 938-981): attributes, times and size of the find
\* record; cFileName is left as the caller filled it.
FindDataFromStat(path, fileStat, lpFindFileData) ==
    LET dirBit == IF S_ISDIR(fileStat) THEN {"FILE_ATTRIBUTE_DIRECTORY"} ELSE {}
        base == IF dirBit = {} THEN {"FILE_ATTRIBUTE_ARCHIVE"} ELSE dirBit
        lastSep == strrchr(path, "/")
        name == SubSeq(path, lastSep + 1, Len(path))
        hidden == IF lastSep # 0 /\ Len(name) > 1 /\ name[1] = "." /\ name[2] # "."
                  THEN {"FILE_ATTRIBUTE_HIDDEN"} ELSE {}
        readonly == IF ~OwnerMayWrite(fileStat) THEN {"FILE_ATTRIBUTE_READONLY"} ELSE {}
    IN  [lpFindFileData EXCEPT
            !.dwFileAttributes = base \cup hidden \cup readonly,
            !.ftCreationTime = [dwHighDateTime |-> High32(CreationTimeOf(fileStat)),
                                dwLowDateTime |-> Low32(CreationTimeOf(fileStat))],
            !.ftLastWriteTime = [dwHighDateTime |-> High32(fileStat.mtime),
                                 dwLowDateTime |-> Low32(fileStat.mtime)],
            !.ftLastAccessTime = [dwHighDateTime |-> High32(fileStat.atime),
                                  dwLowDateTime |-> Low32(fileStat.atime)],
            !.nFileSizeHigh = High32(fileStat.size),
            !.nFileSizeLow = Low32(fileStat.size)]

\* The fullpath buffer FindNextFileA builds (lines 1132-1147): lpPath, a
\* separator unless lpPath ends in one, the entry name.
FullPath(lpPath, d_name) ==
    IF lpPath[Len(lpPath)] # "/" THEN lpPath \o <<"/">> \o d_name
    ELSE lpPath \o d_name

\* Mutant of FindNext_NoMoreFiles: the last-error code is not set.
FindNext_NoMoreFiles_silent(pos, data, err, allocs) ==
    [ret |-> FALSE, pos |-> pos, data |-> data, err |-> err, allocs |-> allocs,
     oom |-> FALSE]

\* FindNextFileA after readdir returned NULL (lines 1171-1172).
FindNext_NoMoreFiles(pos, data, err, allocs) ==
    [ret |-> FALSE, pos |-> pos, data |-> data, err |-> "ERROR_NO_MORE_FILES",
     allocs |-> allocs, oom |-> FALSE]

\* Mutant of S_ISFIFO: the test is inverted.
S_ISFIFO_inverted(fileStat) == fileStat.kind # "fifo"

\* S_ISFIFO on the mode stat returned (line 1159).
S_ISFIFO_never(fileStat) == FALSE

S_ISFIFO(fileStat) == fileStat.kind = "fifo"

\* The readdir loop of FindNextFileA (lines 1124-1173) on the stream of
\* dirEntries, from cursor pos (the number of entries read so far).  oomPos
\* is the stream position at which malloc of the fullpath buffer fails, 0 if
\* it never does.  data is the caller's record, err the last-error code
\* ("unchanged" while SetLastError has not run), allocs the number of
\* buffers allocated so far in this call.
RECURSIVE FindNextLoop(_, _, _, _, _, _, _)
FindNextLoop(lpPath, lpPattern, pos, oomPos, data, err, allocs) ==
    IF pos >= Len(dirEntries)
    THEN FindNext_NoMoreFiles(pos, data, err, allocs)
    ELSE LET d_name == dirEntries[pos + 1].name
             next == pos + 1
         IN  IF ~FilePatternMatchA(d_name, lpPattern)
             THEN FindNextLoop(lpPath, lpPattern, next, oomPos, data, err, allocs)
             ELSE LET named == [data EXCEPT !.cFileName = d_name]
                  IN  IF oomPos = next
                      THEN [ret |-> FALSE, pos |-> next, data |-> named,
                            err |-> "ERROR_NOT_ENOUGH_MEMORY", allocs |-> allocs,
                            oom |-> TRUE]
                      ELSE LET fullpath == FullPath(lpPath, d_name)
                               fileStat == stat(fullpath)
                           IN  IF ~fileStat.ok
                               THEN FindNextLoop(lpPath, lpPattern, next, oomPos, named,
                                                 MappedStatError, allocs + 1)
                               ELSE IF S_ISFIFO(fileStat)
                               THEN FindNextLoop(lpPath, lpPattern, next, oomPos, named,
                                                 err, allocs + 1)
                               ELSE [ret |-> TRUE, pos |-> next,
                                     data |-> FindDataFromStat(fullpath, fileStat, named),
                                     err |-> err, allocs |-> allocs + 1, oom |-> FALSE]

\* Search handle values the callers pass: NULL, the invalid sentinel, a
\* pointer to an object that is no search handle, and the addresses
\* file_search_new's calloc returns.
SearchSlots == {"s1"}
SearchHandleValues == {NULL, INVALID_HANDLE_VALUE, "garbage"} \cup SearchSlots

\* Paths the callers pass to FindFirstFileA.
SearchNames ==
    { NULL,
      <<"/", "d", "/", "*">>, <<"/", "d", "/", "a", "*">>, <<"/", "d", "/", "a", "?">>,
      <<"/", "d">>, <<"/", "d", "/">>, <<"d">>, <<"/", "x", "/", "a">>,
      <<"/", "f">>, <<"/", "p">> }

\* The allocation of file_search_new that fails, if any.
AllocFailures == {"none", "calloc", "lpPath", "lpPattern", "dupPath", "dupPattern"}

NoStruct == [state |-> "free", lpPath |-> <<>>, lpPattern |-> <<>>, dirOpen |-> FALSE,
             cursor |-> 0]
NoHistory == [reported |-> <<>>, oom |-> FALSE, exhausted |-> FALSE, repeats |-> 0]
NoHeap == [structs |-> 0, strings |-> 0, streams |-> 0]
NoSearchCall == [op |-> "none", hFindFile |-> NULL, lpFindFileData |-> NULL,
                 ret |-> "none", written |-> FALSE, data |-> EmptyFindData,
                 allocs |-> 0,
                 lpName |-> NULL, stage |-> "none",
                 errno |-> "none",
                 failing |-> "none"]

SearchInit ==
    /\ dirEntries \in Directories
    /\ search = [s \in SearchSlots |-> NoStruct]
    /\ shist = [s \in SearchSlots |-> NoHistory]
    /\ heap = NoHeap
    /\ corrupt = FALSE
    /\ searchLastError = NoError
    /\ scall = NoSearchCall

SearchIdle ==
    /\ dirEntries = <<>>
    /\ search = [s \in SearchSlots |-> NoStruct]
    /\ shist = [s \in SearchSlots |-> NoHistory]
    /\ heap = NoHeap
    /\ corrupt = FALSE
    /\ searchLastError = NoError
    /\ scall = NoSearchCall

\* Mutant of Released: the directory stream is never closed.
Released_noClosedir(pathSet, patternSet, dirIsOpen) ==
    [structs |-> 1,
     strings |-> (IF pathSet THEN 1 ELSE 0) + (IF patternSet THEN 1 ELSE 0),
     streams |-> 0]

\* What FindClose releases for a search structure with the given fields:
\* both strings (free(NULL) releases nothing), the stream if open, the
\* structure itself (lines 1216-1223).
Released(pathSet, patternSet, dirIsOpen) ==
    [structs |-> 1,
     strings |-> (IF pathSet THEN 1 ELSE 0) + (IF patternSet THEN 1 ELSE 0),
     streams |-> IF dirIsOpen THEN 1 ELSE 0]

HeapPlus(h, d) == [structs |-> h.structs + d.structs, strings |-> h.strings + d.strings,
                   streams |-> h.streams + d.streams]
HeapMinus(h, d) == [structs |-> h.structs - d.structs, strings |-> h.strings - d.strings,
                    streams |-> h.streams - d.streams]

\* Mutant of FallbackPattern: names of one character only.
FallbackPattern_question(pattern, patternlen) == <<"?">>

\* _strdup("*") (line 905)
FallbackPattern(pattern, patternlen) == <<"*">>

\* file_search_new (lines 873-925).  The result says whether a handle is
\* returned, its lpPath and lpPattern, and what the call leaves allocated.
file_search_new(name, namelen, pattern, patternlen, failing) ==
    IF failing = "calloc"
    THEN [ok |-> FALSE, lpPath |-> <<>>, lpPattern |-> <<>>, left |-> NoHeap]
    ELSE
    LET pathOk == failing # "lpPath"
        patternOk == failing # "lpPattern"
        lpPath == SubSeq(name, 1, namelen)
        lpPattern == SubSeq(pattern, 1, patternlen)
        got1 == [structs |-> 1,
                 strings |-> (IF pathOk THEN 1 ELSE 0) + (IF patternOk THEN 1 ELSE 0),
                 streams |-> 0]
    IN  IF ~pathOk \/ ~patternOk
        THEN \* goto fail: FindClose(pFileSearch)
             [ok |-> FALSE, lpPath |-> <<>>, lpPattern |-> <<>>,
              left |-> HeapMinus(got1, Released(pathOk, patternOk, FALSE))]
        ELSE IF opendir(lpPath)
        THEN [ok |-> TRUE, lpPath |-> lpPath, lpPattern |-> lpPattern,
              left |-> HeapPlus(got1, [structs |-> 0, strings |-> 0, streams |-> 1])]
        ELSE IF stat(name).ok /\ stat(name).kind = "dir" /\ opendir(name)
        THEN \* the fallback: both strings are freed and duplicated anew
             LET dupPathOk == failing # "dupPath"
                 dupPatternOk == failing # "dupPattern"
                 got2 == [structs |-> 1,
                          strings |-> (IF dupPathOk THEN 1 ELSE 0)
                                      + (IF dupPatternOk THEN 1 ELSE 0),
                          streams |-> 1]
             IN  IF ~dupPathOk \/ ~dupPatternOk
                 THEN \* closedir, pDir = NULL, goto fail: FindClose(pFileSearch)
                      [ok |-> FALSE, lpPath |-> <<>>, lpPattern |-> <<>>,
                       left |-> HeapMinus(HeapMinus(got2, [structs |-> 0, strings |-> 0,
                                                           streams |-> 1]),
                                          Released(dupPathOk, dupPatternOk, FALSE))]
                 ELSE [ok |-> TRUE, lpPath |-> name,
                       lpPattern |-> FallbackPattern(pattern, patternlen),
                       left |-> got2]
        ELSE \* goto fail: FindClose(pFileSearch)
             [ok |-> FALSE, lpPath |-> <<>>, lpPattern |-> <<>>,
              left |-> HeapMinus(got1, Released(TRUE, TRUE, FALSE))]

\* The handle value is the address of a search structure that is allocated.
IsLive(hFindFile) ==
    IF hFindFile \in SearchSlots THEN search[hFindFile].state = "live" ELSE FALSE

\* Mutant of is_valid_file_search_handle: the magic is not compared.
is_valid_file_search_handle_noMagic(handle, magicMatches) ==
    handle # NULL /\ handle # INVALID_HANDLE_VALUE

\* is_valid_file_search_handle (lines 927-937).  The magic of a structure
\* that has been freed is whatever the freed memory holds: magicMatches.
is_valid_file_search_handle(handle, magicMatches) ==
    IF handle = NULL THEN FALSE
    ELSE IF handle = INVALID_HANDLE_VALUE THEN FALSE
    ELSE IF handle = "garbage" THEN FALSE
    ELSE IF search[handle].state = "live" THEN TRUE
    ELSE magicMatches

\* History kept for a handle after a FindNextFileA loop ended with result r.
Recorded(h, r, counts) ==
    [reported |-> IF r.ret THEN Append(h.reported, r.pos) ELSE h.reported,
     oom |-> h.oom \/ r.oom,
     exhausted |-> h.exhausted \/ (~r.ret /\ ~r.oom),
     repeats |-> IF h.exhausted /\ counts /\ h.repeats < MaxRepeat
                 THEN h.repeats + 1 ELSE h.repeats]

\* errno after opendir failed on path.
OpendirErrno(path) ==
    IF StripSlash(path) \in {<<"/">>, <<"/", "p">>} THEN "EACCES" ELSE "ENOENT"

\* errno left by the directory open of file_search_new (lines 887-914) when
\* it is the reason why no handle is returned, "none" otherwise.
SearchOpenErrno(name, namelen, failing) ==
    IF failing \in {"calloc", "lpPath", "lpPattern"} THEN "none"
    ELSE IF opendir(SubSeq(name, 1, namelen)) THEN "none"
    ELSE IF ~stat(name).ok THEN "ENOENT"
    ELSE IF stat(name).kind # "dir" THEN OpendirErrno(SubSeq(name, 1, namelen))
    ELSE IF opendir(name) THEN "none"
    ELSE OpendirErrno(name)

\* Mutant of FindFirst_CloseOnFail: the fresh handle is not closed.
FindFirst_CloseOnFail_leak == NoHeap

\* fail: FindClose(pFileSearch) on the handle file_search_new returned
\* (lines 1016-1017): what it releases.
FindFirst_CloseOnFail == Released(TRUE, TRUE, TRUE)

\* FindFirstFileA (lines 983-1019), with file_search_new, the first
\* FindNextFileA and, on failure, FindClose.
FindFirstFileA(lpName, lpFindFileData, failing, oomPos) ==
    /\ ~corrupt
    /\ UNCHANGED <<dirEntries, corrupt, nonSearchVars>>
    /\ IF lpFindFileData = NULL \/ lpName = NULL
       THEN /\ searchLastError' = "ERROR_BAD_ARGUMENTS"
            /\ scall' = [op |-> "FindFirstFileA", hFindFile |-> NULL,
                         lpFindFileData |-> lpFindFileData,
                         ret |-> INVALID_HANDLE_VALUE, written |-> FALSE,
                         data |-> EmptyFindData, allocs |-> 0,
                         lpName |-> lpName, stage |-> "args",
                         errno |-> "none",
                         failing |-> "none"]
            /\ UNCHANGED <<search, shist, heap>>
       ELSE
       LET flen == Len(lpName)
           ptr == strrchr(lpName, Sep)
           patternlen == flen - ptr
       IN  IF ptr = 0 \/ patternlen = 0
           THEN \* goto fail: FindClose(NULL)
                /\ scall' = [op |-> "FindFirstFileA", hFindFile |-> NULL,
                             lpFindFileData |-> lpFindFileData,
                             ret |-> INVALID_HANDLE_VALUE, written |-> TRUE,
                             data |-> EmptyFindData, allocs |-> 0,
                             lpName |-> lpName, stage |-> "parse",
                             errno |-> "none",
                             failing |-> "none"]
                /\ UNCHANGED <<search, shist, heap, searchLastError>>
           ELSE
           \E s \in SearchSlots :
              /\ failing # "calloc" => search[s].state # "live"
              /\ LET new == file_search_new(lpName, flen - patternlen,
                                            SubSeq(lpName, ptr + 1, flen),
                                            patternlen, failing)
                 IN  IF ~new.ok
                     THEN /\ searchLastError' = "ERROR_NOT_ENOUGH_MEMORY"
                          /\ heap' = HeapPlus(heap, new.left)
                          /\ scall' = [op |-> "FindFirstFileA", hFindFile |-> NULL,
                                       lpFindFileData |-> lpFindFileData,
                                       ret |-> INVALID_HANDLE_VALUE, written |-> TRUE,
                                       data |-> EmptyFindData, allocs |-> 0,
                                       lpName |-> lpName, stage |-> "new",
                                       errno |-> SearchOpenErrno(lpName, flen - patternlen,
                                                                 failing),
                                       failing |-> failing]
                          /\ UNCHANGED <<search, shist>>
                     ELSE
                     LET r == FindNextLoop(new.lpPath, new.lpPattern, 0, oomPos,
                                           EmptyFindData, "unchanged", 0)
                     IN  /\ searchLastError' =
                               IF r.err = "unchanged" THEN searchLastError ELSE r.err
                         /\ IF r.ret
                            THEN /\ search' = [search EXCEPT ![s] =
                                       [state |-> "live", lpPath |-> new.lpPath,
                                        lpPattern |-> new.lpPattern, dirOpen |-> TRUE,
                                        cursor |-> r.pos]]
                                 /\ shist' = [shist EXCEPT ![s] =
                                                 Recorded(NoHistory, r, FALSE)]
                                 /\ heap' = HeapPlus(heap, new.left)
                                 /\ scall' = [op |-> "FindFirstFileA", hFindFile |-> s,
                                              lpFindFileData |-> lpFindFileData,
                                              ret |-> s, written |-> TRUE,
                                              data |-> r.data, allocs |-> r.allocs,
                                              lpName |-> lpName, stage |-> "ok",
                                              errno |-> "none",
                                              failing |-> "none"]
                            ELSE \* fail: FindClose(pFileSearch)
                                 /\ heap' = HeapMinus(HeapPlus(heap, new.left),
                                                      FindFirst_CloseOnFail)
                                 /\ scall' = [op |-> "FindFirstFileA", hFindFile |-> NULL,
                                              lpFindFileData |-> lpFindFileData,
                                              ret |-> INVALID_HANDLE_VALUE,
                                              written |-> TRUE, data |-> r.data,
                                              allocs |-> r.allocs,
                                              lpName |-> lpName, stage |-> "next",
                                              errno |-> "none",
                                              failing |-> "none"]
                                 /\ UNCHANGED <<search, shist>>

\* FindNextFileA (lines 1110-1173).
FindNextFileA(hFindFile, lpFindFileData, oomPos, magicMatches) ==
    /\ ~corrupt
    /\ hFindFile \in SearchSlots => search[hFindFile].state # "free"
    /\ UNCHANGED <<dirEntries, heap, nonSearchVars>>
    /\ IF lpFindFileData = NULL
       THEN /\ scall' = [op |-> "FindNextFileA", hFindFile |-> hFindFile,
                         lpFindFileData |-> NULL, ret |-> "FALSE", written |-> FALSE,
                         data |-> EmptyFindData, allocs |-> 0,
                         lpName |-> NULL, stage |-> "none",
                         errno |-> "none",
                         failing |-> "none"]
            /\ UNCHANGED <<search, shist, corrupt, searchLastError>>
       ELSE IF ~is_valid_file_search_handle(hFindFile, magicMatches)
       THEN /\ scall' = [op |-> "FindNextFileA", hFindFile |-> hFindFile,
                         lpFindFileData |-> lpFindFileData, ret |-> "FALSE",
                         written |-> TRUE, data |-> EmptyFindData, allocs |-> 0,
                         lpName |-> NULL, stage |-> "none",
                         errno |-> "none",
                         failing |-> "none"]
            /\ UNCHANGED <<search, shist, corrupt, searchLastError>>
       ELSE IF ~IsLive(hFindFile)
       THEN \* readdir on the stream of a freed structure: undefined
            /\ corrupt' = TRUE
            /\ scall' = [op |-> "FindNextFileA", hFindFile |-> hFindFile,
                         lpFindFileData |-> lpFindFileData, ret |-> "undefined",
                         written |-> TRUE, data |-> EmptyFindData, allocs |-> 0,
                         lpName |-> NULL, stage |-> "none",
                         errno |-> "none",
                         failing |-> "none"]
            /\ UNCHANGED <<search, shist, searchLastError>>
       ELSE LET pFileSearch == search[hFindFile]
                r == FindNextLoop(pFileSearch.lpPath, pFileSearch.lpPattern,
                                  pFileSearch.cursor, oomPos, EmptyFindData,
                                  "unchanged", 0)
            IN  /\ search' = [search EXCEPT ![hFindFile].cursor = r.pos]
                /\ shist' = [shist EXCEPT ![hFindFile] = Recorded(@, r, TRUE)]
                /\ searchLastError' =
                      IF r.err = "unchanged" THEN searchLastError ELSE r.err
                /\ scall' = [op |-> "FindNextFileA", hFindFile |-> hFindFile,
                             lpFindFileData |-> lpFindFileData,
                             ret |-> IF r.ret THEN "TRUE" ELSE "FALSE",
                             written |-> TRUE, data |-> r.data, allocs |-> r.allocs,
                             lpName |-> NULL, stage |-> "none",
                             errno |-> "none",
                             failing |-> "none"]
                /\ UNCHANGED corrupt

\* FindClose (lines 1202-1225).
FindClose(hFindFile, magicMatches) ==
    /\ ~corrupt
    /\ hFindFile \in SearchSlots => search[hFindFile].state # "free"
    /\ UNCHANGED <<dirEntries, searchLastError, nonSearchVars>>
    /\ IF hFindFile = NULL \/ ~is_valid_file_search_handle(hFindFile, magicMatches)
       THEN /\ scall' = [op |-> "FindClose", hFindFile |-> hFindFile,
                         lpFindFileData |-> NULL, ret |-> "FALSE", written |-> FALSE,
                         data |-> EmptyFindData, allocs |-> 0,
                         lpName |-> NULL, stage |-> "none",
                         errno |-> "none",
                         failing |-> "none"]
            /\ UNCHANGED <<search, shist, heap, corrupt>>
       ELSE IF ~IsLive(hFindFile)
       THEN \* the freed structure and its strings are freed again: undefined
            /\ corrupt' = TRUE
            /\ scall' = [op |-> "FindClose", hFindFile |-> hFindFile,
                         lpFindFileData |-> NULL, ret |-> "undefined",
                         written |-> FALSE, data |-> EmptyFindData, allocs |-> 0,
                         lpName |-> NULL, stage |-> "none",
                         errno |-> "none",
                         failing |-> "none"]
            /\ UNCHANGED <<search, shist, heap>>
       ELSE /\ heap' = HeapMinus(heap, Released(TRUE, TRUE, search[hFindFile].dirOpen))
            /\ search' = [search EXCEPT ![hFindFile] = [NoStruct EXCEPT !.state = "freed"]]
            /\ shist' = [shist EXCEPT ![hFindFile] = NoHistory]
            /\ scall' = [op |-> "FindClose", hFindFile |-> hFindFile,
                         lpFindFileData |-> NULL, ret |-> "TRUE", written |-> FALSE,
                         data |-> EmptyFindData, allocs |-> 0,
                         lpName |-> NULL, stage |-> "none",
                         errno |-> "none",
                         failing |-> "none"]
            /\ UNCHANGED corrupt

\* The injected failures that a call can meet: an allocation of
\* file_search_new fails only in a FindFirstFileA call that reaches it, the
\* malloc of the full path fails at entry oomPos (0: never) only when the
\* entries are read, and freed memory is read only through a freed handle.
ReachesSearchNew(lpName, lpFindFileData) ==
    /\ lpName # NULL
    /\ lpFindFileData # NULL
    /\ strrchr(lpName, Sep) # 0
    /\ strrchr(lpName, Sep) # Len(lpName)

FailuresOf(lpName, lpFindFileData) ==
    IF ReachesSearchNew(lpName, lpFindFileData) THEN AllocFailures ELSE {"none"}

OomPositions(reads) == IF reads THEN 0..Len(dirEntries) ELSE {0}

MagicOf(hFindFile) ==
    IF hFindFile \in SearchSlots /\ ~IsLive(hFindFile) THEN BOOLEAN ELSE {FALSE}

SearchStep ==
    \/ \E lpName \in SearchNames, lpFindFileData \in {NULL, "record"} :
          \E failing \in FailuresOf(lpName, lpFindFileData) :
             \E oomPos \in OomPositions(ReachesSearchNew(lpName, lpFindFileData)
                                        /\ failing = "none") :
                FindFirstFileA(lpName, lpFindFileData, failing, oomPos)
    \/ \E hFindFile \in SearchHandleValues, lpFindFileData \in {NULL, "record"} :
          \E oomPos \in OomPositions(IsLive(hFindFile) /\ lpFindFileData # NULL),
             magicMatches \in MagicOf(hFindFile) :
                FindNextFileA(hFindFile, lpFindFileData, oomPos, magicMatches)
    \/ \E hFindFile \in SearchHandleValues :
          \E magicMatches \in MagicOf(hFindFile) :
             FindClose(hFindFile, magicMatches)

\* ------------------------------------------------------------------------
\* MoveFileExA and MoveFileA (generic.c:1286-1342)
\* ------------------------------------------------------------------------

\* Paths the callers move between, and what a path can hold: nothing, or a
\* file with its owner-write bit and the content it was created with.
MovePaths == {"A", "B"}
NoFile == [present |-> FALSE, wusr |-> FALSE, content |-> "none"]
FileStates ==
    {NoFile} \cup [present : {TRUE}, wusr : BOOLEAN, content : {"a", "b"}]

MoveFlags == {{}, {"MOVEFILE_REPLACE_EXISTING"}}

NoMoveCall ==
    [op |-> "none", phase |-> "done", lpExistingFileName |-> "A",
     lpNewFileName |-> "B", dwFlags |-> {}, destPresent |-> FALSE,
     destWusr |-> FALSE, renamed |-> FALSE, ret |-> "none", errno |-> "none"]

MoveInit ==
    /\ files \in [MovePaths -> FileStates]
    /\ mcall = NoMoveCall
    /\ moveLastError = NoError

MoveIdle ==
    /\ files = [f \in MovePaths |-> NoFile]
    /\ mcall = NoMoveCall
    /\ moveLastError = NoError

\* map_posix_err on the errno values rename leaves.
map_posix_err(errno) ==
    CASE errno = "ENOENT" -> "ERROR_FILE_NOT_FOUND"
      [] errno = "EACCES" -> "ERROR_ACCESS_DENIED"
      [] errno = "EEXIST" -> "ERROR_ALREADY_EXISTS"
      [] OTHER -> "ERROR_GEN_FAILURE"

\* Mutant of MoveCheck: the owner-write bit of the destination is not tested.
MoveCheck_noWriteTest(destPresent, destWusr, dwFlags) ==
    IF "MOVEFILE_REPLACE_EXISTING" \notin dwFlags /\ destPresent
    THEN "ERROR_ALREADY_EXISTS"
    ELSE "rename"

\* The tests MoveFileExA makes on the result of stat(lpNewFileName) (lines
\* 1292-1307): the error it returns with, or "rename" to go on.
MoveCheck(destPresent, destWusr, dwFlags) ==
    IF "MOVEFILE_REPLACE_EXISTING" \notin dwFlags
    THEN IF destPresent THEN "ERROR_ALREADY_EXISTS" ELSE "rename"
    ELSE IF destPresent /\ ~destWusr THEN "ERROR_ACCESS_DENIED" ELSE "rename"

\* MoveFileExA up to the call of rename (lines 1286-1307): stat of the
\* destination and the tests on it.  op names the entry point called.
MoveFileExA_Stat(op, lpExistingFileName_, lpNewFileName_, dwFlags) ==
    /\ mcall.phase = "done"
    /\ LET st == files[lpNewFileName_]
           check == MoveCheck(st.present, st.wusr, dwFlags)
           call == [op |-> op, lpExistingFileName |-> lpExistingFileName_,
                    lpNewFileName |-> lpNewFileName_, dwFlags |-> dwFlags,
                    destPresent |-> st.present, destWusr |-> st.wusr,
                    renamed |-> FALSE, ret |-> "none", phase |-> "rename",
                    errno |-> "none"]
       IN  IF check = "rename"
           THEN /\ mcall' = call
                /\ UNCHANGED moveLastError
           ELSE /\ mcall' = [call EXCEPT !.phase = "done", !.ret = "FALSE"]
                /\ moveLastError' = check

MoveFileExA(lpExistingFileName_, lpNewFileName_, dwFlags) ==
    /\ MoveFileExA_Stat("MoveFileExA", lpExistingFileName_, lpNewFileName_, dwFlags)
    /\ UNCHANGED <<files, nonMoveVars>>

\* MoveFileA (lines 1339-1342).
MoveFileA(lpExistingFileName_, lpNewFileName_) ==
    /\ MoveFileExA_Stat("MoveFileA", lpExistingFileName_, lpNewFileName_, {})
    /\ UNCHANGED <<files, nonMoveVars>>

\* MoveFileExA from the call of rename on (lines 1309-1314).  errno is what
\* rename fails with for a reason other than a missing source, "none" if
\* there is no such reason.
MoveFileExA_Rename(errno) ==
    /\ mcall.phase = "rename"
    /\ LET old == mcall.lpExistingFileName
           new == mcall.lpNewFileName
           failure == IF ~files[old].present THEN "ENOENT" ELSE errno
       IN  IF failure # "none"
           THEN /\ moveLastError' = map_posix_err(failure)
                /\ mcall' = [mcall EXCEPT !.phase = "done", !.renamed = TRUE,
                                          !.ret = "FALSE", !.errno = failure]
                /\ UNCHANGED files
           ELSE /\ files' = IF old = new THEN files
                            ELSE [files EXCEPT ![new] = files[old], ![old] = NoFile]
                /\ mcall' = [mcall EXCEPT !.phase = "done", !.renamed = TRUE,
                                          !.ret = "TRUE"]
                /\ UNCHANGED moveLastError
    /\ UNCHANGED nonMoveVars

\* Another process creates, removes or changes the mode of a file.
OtherProcess(path, state) ==
    /\ files[path] # state
    /\ files' = [files EXCEPT ![path] = state]
    /\ UNCHANGED <<mcall, moveLastError, nonMoveVars>>

MoveStep ==
    \/ \E old \in MovePaths, new \in MovePaths, dwFlags \in MoveFlags :
          MoveFileExA(old, new, dwFlags)
    \/ \E old \in MovePaths, new \in MovePaths : MoveFileA(old, new)
    \/ \E errno \in {"none", "EACCES"} : MoveFileExA_Rename(errno)
    \/ \E path \in MovePaths, state \in FileStates : OtherProcess(path, state)

\* ------------------------------------------------------------------------
\* FindDataFromStat on its own (generic.c:938-981)
\* ------------------------------------------------------------------------

\* Entry names: "a", ".", "..", ".e" (as .env), "..d" (as ..data), "a.".
FindDataNames ==
    { <<"a">>, <<".">>, <<".", ".">>, <<".", "e">>, <<".", ".", "d">>, <<"a", ".">> }

\* Results of a successful stat: kind of the mode, the three write bits,
\* size and times.
FindDataSizes == {<<0, 0, 0, 5>>, <<0, 1, 0, 0>>, <<65535, 65535, 65535, 65535>>}

FindDataStats ==
    [ok : {TRUE}, kind : {"reg", "dir"}, wusr : BOOLEAN, wgrp : BOOLEAN,
     woth : BOOLEAN, size : FindDataSizes,
     ctime : {<<1, 2, 3, 4>>}, mtime : {<<1, 2, 3, 5>>}, atime : {<<1, 2, 3, 6>>}]
    \cup
    [ok : {TRUE}, kind : {"reg", "dir"}, wusr : BOOLEAN, wgrp : BOOLEAN,
     woth : BOOLEAN, size : FindDataSizes,
     ctime : {<<1, 2, 3, 4>>}, mtime : {<<1, 2, 3, 5>>}, atime : {<<1, 2, 3, 6>>},
     birthtime : {<<1, 2, 65535, 0>>}]

NoFindDataCall ==
    [done |-> FALSE, name |-> <<>>, path |-> <<>>,
     fileStat |-> [ok |-> TRUE, kind |-> "reg", wusr |-> TRUE, wgrp |-> TRUE,
                   woth |-> TRUE, size |-> <<0, 0, 0, 0>>, ctime |-> <<0, 0, 0, 0>>,
                   mtime |-> <<0, 0, 0, 0>>, atime |-> <<0, 0, 0, 0>>],
     data |-> EmptyFindData]

FindDataIdle == fdcall = NoFindDataCall

\* FindNextFileA from the copy of the entry name to the call of
\* FindDataFromStat (lines 1130-1165), for an entry of directory "/d/" whose
\* stat gave fileStat.
FindDataFromStat_Call(d_name, fileStat) ==
    /\ LET fullpath == FullPath(<<"/", "d", "/">>, d_name)
           named == [EmptyFindData EXCEPT !.cFileName = d_name]
       IN  fdcall' = [done |-> TRUE, name |-> d_name, path |-> fullpath,
                      fileStat |-> fileStat,
                      data |-> FindDataFromStat(fullpath, fileStat, named)]
    /\ UNCHANGED nonFindDataVars

FindDataStep ==
    \E d_name \in FindDataNames, fileStat \in FindDataStats :
       FindDataFromStat_Call(d_name, fileStat)

\* ------------------------------------------------------------------------
\* SetFileAttributesA and GetFileAttributesA (generic.c:517-527, 611-648)
\* ------------------------------------------------------------------------

\* The attribute bits that occur, and INVALID_FILE_ATTRIBUTES, the DWORD in
\* which every bit is set.
FileAttributeBits ==
    { "FILE_ATTRIBUTE_READONLY", "FILE_ATTRIBUTE_HIDDEN", "FILE_ATTRIBUTE_DIRECTORY",
      "FILE_ATTRIBUTE_ARCHIVE", "FILE_ATTRIBUTE_NORMAL" }
INVALID_FILE_ATTRIBUTES == FileAttributeBits

\* Masks the callers pass to SetFileAttributesA.
AttributeMasks ==
    { {}, {"FILE_ATTRIBUTE_READONLY"}, {"FILE_ATTRIBUTE_HIDDEN"},
      {"FILE_ATTRIBUTE_READONLY", "FILE_ATTRIBUTE_HIDDEN", "FILE_ATTRIBUTE_NORMAL"} }

\* File names the callers pass: entries of "/d" by absolute path, the entry
\* "a" relative to the working directory "/d", and a file that is not there.
AttrNames ==
    { <<"/", "d", "/", "a">>, <<"a">>, <<"/", "d", "/", ".", "a">>,
      <<"/", "d", "/", "a", "b">>, <<"/", "x", "/", "a">> }

\* The path a name resolves to; the working directory is "/d".
Absolute(path) == IF path[1] = "/" THEN path ELSE <<"/", "d", "/">> \o path

AbsoluteNames == {Absolute(n) : n \in AttrNames}

\* open(lpFileName, O_RDONLY) succeeds
open(path) == stat(Absolute(path)).ok

\* The WIN32_FILE_ATTRIBUTE_DATA of the caller as it is before a call.
CallerInfo ==
    [dwFileAttributes |-> {"FILE_ATTRIBUTE_NORMAL"},
     ftCreationTime |-> [dwHighDateTime |-> Zero32, dwLowDateTime |-> Zero32],
     ftLastAccessTime |-> [dwHighDateTime |-> Zero32, dwLowDateTime |-> Zero32],
     ftLastWriteTime |-> [dwHighDateTime |-> Zero32, dwLowDateTime |-> Zero32],
     nFileSizeHigh |-> Zero32, nFileSizeLow |-> Zero32]

NoAttrCall == [op |-> "none", lpName |-> <<>>, dwFileAttributes |-> {},
               ret |-> "none", attributes |-> {},
               lpFileInformation |-> NULL, info |-> CallerInfo]

AttrIdle ==
    /\ acall = NoAttrCall
    /\ aset = [n \in AbsoluteNames |-> "unset"]

\* The owner-write bit of the mode SetFileAttributesA passes to fchmod
\* (lines 633-640).
NewMode(wusr, dwFileAttributes) ==
    IF "FILE_ATTRIBUTE_READONLY" \in dwFileAttributes THEN FALSE ELSE TRUE

\* fchmod(fd, mode) on the entry of "/d" that path names.
fchmod(path, wusr) ==
    [i \in 1..Len(dirEntries) |->
        IF Absolute(path) = <<"/", "d", "/">> \o dirEntries[i].name
        THEN [dirEntries[i] EXCEPT !.wusr = wusr]
        ELSE dirEntries[i]]

\* SetFileAttributesA (lines 611-648).  failing says that fstat or fchmod
\* fails on the open file.
SetFileAttributesA(lpName, dwFileAttributes, failing) ==
    /\ IF ~open(lpName) \/ failing
       THEN /\ acall' = [op |-> "SetFileAttributesA", lpName |-> lpName,
                         dwFileAttributes |-> dwFileAttributes, ret |-> "FALSE",
                         attributes |-> {},
                         lpFileInformation |-> NULL, info |-> CallerInfo]
            /\ UNCHANGED <<dirEntries, aset>>
       ELSE /\ dirEntries' = fchmod(lpName, NewMode(stat(Absolute(lpName)).wusr,
                                                    dwFileAttributes))
            /\ aset' = [aset EXCEPT ![Absolute(lpName)] =
                           IF "FILE_ATTRIBUTE_READONLY" \in dwFileAttributes
                           THEN "readonly" ELSE "writable"]
            /\ acall' = [op |-> "SetFileAttributesA", lpName |-> lpName,
                         dwFileAttributes |-> dwFileAttributes, ret |-> "TRUE",
                         attributes |-> {},
                         lpFileInformation |-> NULL, info |-> CallerInfo]
    /\ UNCHANGED <<search, heap, corrupt, searchLastError, scall, shist, nonAttrVars>>

\* What FindFirstFileA (lines 983-1019) gives for a record that starts
\* zeroed, when no allocation fails: whether a handle was returned, the
\* record, the last-error code ("unchanged" if not set), what the call
\* allocated (opened) and what it released itself before it returned.
FindFirstThenClose(lpName) ==
    LET flen == Len(lpName)
        ptr == strrchr(lpName, Sep)
        patternlen == flen - ptr
    IN  IF ptr = 0 \/ patternlen = 0
        THEN [found |-> FALSE, data |-> EmptyFindData, err |-> "unchanged",
              opened |-> NoHeap, closed |-> NoHeap]
        ELSE LET new == file_search_new(lpName, flen - patternlen,
                                        SubSeq(lpName, ptr + 1, flen), patternlen,
                                        "none")
             IN  IF ~new.ok
                 THEN [found |-> FALSE, data |-> EmptyFindData,
                       err |-> "ERROR_NOT_ENOUGH_MEMORY",
                       opened |-> new.left, closed |-> NoHeap]
                 ELSE LET r == FindNextLoop(new.lpPath, new.lpPattern, 0, 0,
                                            EmptyFindData, "unchanged", 0)
                      IN  [found |-> r.ret, data |-> r.data, err |-> r.err,
                           opened |-> new.left,
                           closed |-> IF r.ret THEN NoHeap
                                      ELSE Released(TRUE, TRUE, TRUE)]

\* Mutant of FindClose_Lookup: the handle of the lookup is not closed.
FindClose_Lookup_skipped(found) == NoHeap

\* FindClose(hFind) on the handle of a lookup that succeeded (lines 487,
\* 525): what it releases.
FindClose_Lookup(found) == IF found THEN Released(TRUE, TRUE, TRUE) ELSE NoHeap

\* The heap after a lookup and the FindClose that follows it.
HeapAfterLookup(r) ==
    HeapMinus(HeapMinus(HeapPlus(heap, r.opened), r.closed), FindClose_Lookup(r.found))

\* GetFileAttributesA (lines 517-527).
GetFileAttributesA(lpName) ==
    /\ LET r == FindFirstThenClose(lpName)
       IN  /\ acall' = [op |-> "GetFileAttributesA", lpName |-> lpName,
                        dwFileAttributes |-> {}, ret |-> "DWORD",
                        attributes |-> IF r.found THEN r.data.dwFileAttributes
                                       ELSE INVALID_FILE_ATTRIBUTES,
                        lpFileInformation |-> NULL, info |-> CallerInfo]
           /\ searchLastError' = IF r.err = "unchanged" THEN searchLastError ELSE r.err
           /\ heap' = HeapAfterLookup(r)
    /\ UNCHANGED <<dirEntries, search, corrupt, scall, shist, aset, nonAttrVars>>

\* The six assignments of GetFileAttributesExA (lines 488-493).
CopyAttributeData(findFileData) ==
    [dwFileAttributes |-> findFileData.dwFileAttributes,
     ftCreationTime |-> findFileData.ftCreationTime,
     ftLastAccessTime |-> findFileData.ftLastAccessTime,
     ftLastWriteTime |-> findFileData.ftLastWriteTime,
     nFileSizeHigh |-> findFileData.nFileSizeHigh,
     nFileSizeLow |-> findFileData.nFileSizeLow]

\* GetFileAttributesExA (lines 474-496).
GetFileAttributesExA(lpName, lpFileInformation) ==
    /\ IF lpFileInformation = NULL
       THEN /\ acall' = [op |-> "GetFileAttributesExA", lpName |-> lpName,
                         dwFileAttributes |-> {}, ret |-> "FALSE",
                         attributes |-> {},
                         lpFileInformation |-> NULL, info |-> CallerInfo]
            /\ UNCHANGED <<searchLastError, heap>>
       ELSE LET r == FindFirstThenClose(lpName)
            IN  /\ acall' = [op |-> "GetFileAttributesExA", lpName |-> lpName,
                             dwFileAttributes |-> {},
                             ret |-> IF r.found THEN "TRUE" ELSE "FALSE",
                             attributes |-> {},
                             lpFileInformation |-> lpFileInformation,
                             info |-> IF r.found THEN CopyAttributeData(r.data)
                                      ELSE CallerInfo]
                /\ searchLastError' =
                      IF r.err = "unchanged" THEN searchLastError ELSE r.err
                /\ heap' = HeapAfterLookup(r)
    /\ UNCHANGED <<dirEntries, search, corrupt, scall, shist, aset, nonAttrVars>>

AttrStep ==
    \/ \E lpName \in AttrNames, dwFileAttributes \in AttributeMasks,
          failing \in BOOLEAN :
          SetFileAttributesA(lpName, dwFileAttributes, failing)
    \/ \E lpName \in AttrNames : GetFileAttributesA(lpName)
    \/ \E lpName \in AttrNames, lpFileInformation \in {NULL, "fd"} :
          GetFileAttributesExA(lpName, lpFileInformation)

\* ------------------------------------------------------------------------
\* CreateDirectoryA and RemoveDirectoryA (generic.c:1227-1265)
\* ------------------------------------------------------------------------

DirPaths == {"x", "y", "z"}

NoDirCall == [op |-> "none", lpPathName |-> "x", errno |-> "none", ret |-> "none"]

DirIdle ==
    /\ dirs = {}
    /\ dircall = NoDirCall
    /\ dirLastError = NoError

DirInit ==
    /\ dirs \in SUBSET DirPaths
    /\ dircall = NoDirCall
    /\ dirLastError = NoError

\* errno of mkdir(path): EEXIST if the directory is there, else the reason
\* the caller's environment gives, "none" for success.
mkdir(path, reason) == IF path \in dirs THEN "EEXIST" ELSE reason

\* errno of rmdir(path): ENOENT if the directory is not there, else the
\* reason the caller's environment gives, "none" for success.
rmdir(path, reason) == IF path \notin dirs THEN "ENOENT" ELSE reason

\* CreateDirectoryA (lines 1227-1234).
CreateDirectoryA(lpPathName, reason) ==
    /\ LET errno == mkdir(lpPathName, reason)
       IN  /\ dirs' = IF errno = "none" THEN dirs \cup {lpPathName} ELSE dirs
           /\ dircall' = [op |-> "CreateDirectoryA", lpPathName |-> lpPathName,
                          errno |-> errno,
                          ret |-> IF errno = "none" THEN "TRUE" ELSE "FALSE"]
    /\ UNCHANGED <<dirLastError, nonDirVars>>

\* RemoveDirectoryA (lines 1255-1265).
RemoveDirectoryA(lpPathName, reason) ==
    /\ LET errno == rmdir(lpPathName, reason)
       IN  /\ dirs' = IF errno = "none" THEN dirs \ {lpPathName} ELSE dirs
           /\ dirLastError' = IF errno = "none" THEN "STATUS_SUCCESS"
                              ELSE map_posix_err(errno)
           /\ dircall' = [op |-> "RemoveDirectoryA", lpPathName |-> lpPathName,
                          errno |-> errno,
                          ret |-> IF errno = "none" THEN "TRUE" ELSE "FALSE"]
    /\ UNCHANGED nonDirVars

DirStep ==
    \/ \E lpPathName \in DirPaths, reason \in {"none", "EACCES"} :
          CreateDirectoryA(lpPathName, reason)
    \/ \E lpPathName \in DirPaths, reason \in {"none", "EACCES"} :
          RemoveDirectoryA(lpPathName, reason)

\* ------------------------------------------------------------------------
\* The wide entry points (generic.c:269-289, 498-544, 650-668, 1046-1086,
\* 1175-1200, 1236-1253, 1267-1284, 1317-1337)
\* ------------------------------------------------------------------------

\* The bytes of one UTF-16 code unit in UTF-8.
Utf8Of(unit) ==
    CASE unit = "u002F" -> <<"/">>
      [] unit = "u0061" -> <<"a">>
      [] unit = "u00E9" -> <<"xC3", "xA9">>

RECURSIVE Utf8OfAll(_)
Utf8OfAll(wstr) ==
    IF wstr = <<>> THEN <<>> ELSE Utf8Of(Head(wstr)) \o Utf8OfAll(Tail(wstr))

\* ConvertWCharToUtf8Alloc: a fresh UTF-8 copy, NULL when the allocation fails.
ConvertWCharToUtf8Alloc(wstr, oom) == IF oom THEN NULL ELSE Utf8OfAll(wstr)

WideNames ==
    {NULL, <<"u002F", "u0061">>, <<"u002F", "u00E9">>, <<"u002F", "u0061", "u002F", "u00E9">>}

\* The narrow arguments that correspond to wide ones.
NarrowOf(wstr) == IF wstr = NULL THEN NULL ELSE Utf8OfAll(wstr)

\* What a call does to the caller's output record.
RecordEffects == {"untouched", "zeroed", "entry"}

NoWideCall ==
    [op |-> "none", lpFileName |-> NULL, converted |-> NULL, narrowCalled |-> FALSE,
     narrowRet |-> "none", narrowRecord |-> "untouched",
     wideRet |-> "none", wideRecord |-> "untouched"]

WideIdle == wcall = NoWideCall

\* The narrow variants on their arguments: the value returned and the effect
\* on the record passed.  env is what the file system makes of a non-null
\* name.

\* CreateFileA (lines 230-267).
CreateFileA_Outcome(name, env) ==
    [ret |-> IF name = NULL THEN INVALID_HANDLE_VALUE ELSE env.handle,
     record |-> "untouched"]

\* GetFileAttributesA (lines 517-527) on FindFirstFileA (lines 985-989).
GetFileAttributesA_Outcome(name, env) ==
    [ret |-> IF name = NULL \/ ~env.found THEN "INVALID_FILE_ATTRIBUTES"
             ELSE "FILE_ATTRIBUTE_ARCHIVE",
     record |-> "untouched"]

\* GetFileAttributesExA (lines 474-496).
GetFileAttributesExA_Outcome(name, record, env) ==
    IF record = NULL \/ name = NULL \/ ~env.found
    THEN [ret |-> "FALSE", record |-> "untouched"]
    ELSE [ret |-> "TRUE", record |-> "entry"]

\* SetFileAttributesA (lines 611-648), CreateDirectoryA (lines 1227-1234),
\* RemoveDirectoryA (lines 1255-1265), MoveFileExA (lines 1286-1315): the
\* native call fails on a null name.
BoolByName_Outcome(name, env) ==
    [ret |-> IF name = NULL \/ ~env.ok THEN "FALSE" ELSE "TRUE",
     record |-> "untouched"]

\* FindFirstFileA (lines 983-1019).
FindFirstFileA_Outcome(name, record, env) ==
    IF record = NULL \/ name = NULL
    THEN [ret |-> INVALID_HANDLE_VALUE, record |-> "untouched"]
    ELSE IF env.found
         THEN [ret |-> env.handle, record |-> "entry"]
         ELSE [ret |-> INVALID_HANDLE_VALUE, record |-> "zeroed"]

\* FindNextFileA (lines 1110-1173).
FindNextFileA_Outcome(record, env) ==
    IF record = NULL THEN [ret |-> "FALSE", record |-> "untouched"]
    ELSE IF env.found THEN [ret |-> "TRUE", record |-> "entry"]
         ELSE [ret |-> "FALSE", record |-> "zeroed"]

Environments == [found : BOOLEAN, ok : BOOLEAN, handle : {INVALID_HANDLE_VALUE, "h1"}]

WideRecords == {NULL, "record"}

\* ConvertFindDataAToW (lines 1020-1044).
ConvertFindDataAToW(lpFindFileDataA, lpFindFileDataW) ==
    lpFindFileDataA # NULL /\ lpFindFileDataW # NULL

\* A wide wrapper of a function that takes the name alone: nullRet on a null
\* name, failRet when the conversion fails, else the narrow variant's value.
WrapByName(op, lpFileNameW, oom, nullRet, failRet, narrow, narrowOnNull) ==
    LET lpFileNameA == ConvertWCharToUtf8Alloc(lpFileNameW, oom)
    IN  IF lpFileNameW = NULL
        THEN [op |-> op, lpFileName |-> NULL, converted |-> NULL,
              narrowCalled |-> FALSE,
              narrowRet |-> narrowOnNull.ret, narrowRecord |-> narrowOnNull.record,
              wideRet |-> nullRet, wideRecord |-> "untouched"]
        ELSE IF lpFileNameA = NULL
        THEN [op |-> op, lpFileName |-> lpFileNameW, converted |-> NULL,
              narrowCalled |-> FALSE,
              narrowRet |-> narrow.ret, narrowRecord |-> narrow.record,
              wideRet |-> failRet, wideRecord |-> "untouched"]
        ELSE [op |-> op, lpFileName |-> lpFileNameW, converted |-> lpFileNameA,
              narrowCalled |-> TRUE,
              narrowRet |-> narrow.ret, narrowRecord |-> narrow.record,
              wideRet |-> narrow.ret, wideRecord |-> narrow.record]

\* CreateFileW (lines 269-289).
CreateFileW(lpFileNameW, oom, env) ==
    /\ wcall' = WrapByName("CreateFileW", lpFileNameW, oom, NULL, NULL,
                           CreateFileA_Outcome(NarrowOf(lpFileNameW), env),
                           CreateFileA_Outcome(NULL, env))
    /\ UNCHANGED nonWideVars

\* GetFileAttributesW (lines 529-544).
GetFileAttributesW(lpFileNameW, oom, env) ==
    /\ wcall' = WrapByName("GetFileAttributesW", lpFileNameW, oom, "0", "0",
                           GetFileAttributesA_Outcome(NarrowOf(lpFileNameW), env),
                           GetFileAttributesA_Outcome(NULL, env))
    /\ UNCHANGED nonWideVars

\* GetFileAttributesExW (lines 498-515).
GetFileAttributesExW(lpFileNameW, lpFileInformation, oom, env) ==
    /\ wcall' = WrapByName("GetFileAttributesExW", lpFileNameW, oom, "FALSE", "FALSE",
                   GetFileAttributesExA_Outcome(NarrowOf(lpFileNameW),
                                                lpFileInformation, env),
                   GetFileAttributesExA_Outcome(NULL, lpFileInformation, env))
    /\ UNCHANGED nonWideVars

\* SetFileAttributesW (lines 650-668).
SetFileAttributesW(lpFileNameW, oom, env) ==
    /\ wcall' = WrapByName("SetFileAttributesW", lpFileNameW, oom, "FALSE", "FALSE",
                           BoolByName_Outcome(NarrowOf(lpFileNameW), env),
                           BoolByName_Outcome(NULL, env))
    /\ UNCHANGED nonWideVars

\* CreateDirectoryW (lines 1236-1253).
CreateDirectoryW(lpPathNameW, oom, env) ==
    /\ wcall' = WrapByName("CreateDirectoryW", lpPathNameW, oom, "FALSE", "FALSE",
                           BoolByName_Outcome(NarrowOf(lpPathNameW), env),
                           BoolByName_Outcome(NULL, env))
    /\ UNCHANGED nonWideVars

\* RemoveDirectoryW (lines 1267-1284).
RemoveDirectoryW(lpPathNameW, oom, env) ==
    /\ wcall' = WrapByName("RemoveDirectoryW", lpPathNameW, oom, "FALSE", "FALSE",
                           BoolByName_Outcome(NarrowOf(lpPathNameW), env),
                           BoolByName_Outcome(NULL, env))
    /\ UNCHANGED nonWideVars

\* MoveFileExW (lines 1317-1337); the new name is not null and converts
\* whenever the existing name does.
MoveFileExW(lpExistingFileNameW, oom, env) ==
    /\ wcall' = WrapByName("MoveFileExW", lpExistingFileNameW, oom, "FALSE", "FALSE",
                           BoolByName_Outcome(NarrowOf(lpExistingFileNameW), env),
                           BoolByName_Outcome(NULL, env))
    /\ UNCHANGED nonWideVars

\* FindFirstFileW (lines 1046-1086): the narrow variant works on a record of
\* the wrapper's own, converted into the caller's only on success.
FindFirstFileW(lpFileNameW, lpFindFileData, oomFd, oomName, env) ==
    /\ LET utfFileName == ConvertWCharToUtf8Alloc(lpFileNameW, oomName)
           narrow == FindFirstFileA_Outcome(NarrowOf(lpFileNameW), lpFindFileData, env)
           h == FindFirstFileA_Outcome(utfFileName, "fd", env)
       IN  wcall' =
             IF lpFileNameW = NULL \/ oomFd \/ utfFileName = NULL
             THEN [op |-> "FindFirstFileW", lpFileName |-> lpFileNameW,
                   converted |-> NULL, narrowCalled |-> FALSE,
                   narrowRet |-> narrow.ret, narrowRecord |-> narrow.record,
                   wideRet |-> INVALID_HANDLE_VALUE, wideRecord |-> "untouched"]
             ELSE IF h.ret # INVALID_HANDLE_VALUE
                     /\ ~ConvertFindDataAToW("fd", lpFindFileData)
             THEN [op |-> "FindFirstFileW", lpFileName |-> lpFileNameW,
                   converted |-> utfFileName, narrowCalled |-> TRUE,
                   narrowRet |-> narrow.ret, narrowRecord |-> narrow.record,
                   wideRet |-> INVALID_HANDLE_VALUE, wideRecord |-> "untouched"]
             ELSE [op |-> "FindFirstFileW", lpFileName |-> lpFileNameW,
                   converted |-> utfFileName, narrowCalled |-> TRUE,
                   narrowRet |-> narrow.ret, narrowRecord |-> narrow.record,
                   wideRet |-> h.ret,
                   wideRecord |-> IF h.ret # INVALID_HANDLE_VALUE THEN "entry"
                                  ELSE "untouched"]
    /\ UNCHANGED nonWideVars

\* FindNextFileW (lines 1175-1200).
FindNextFileW(lpFindFileData, oomFd, env) ==
    /\ LET narrow == FindNextFileA_Outcome(lpFindFileData, env)
           onFd == FindNextFileA_Outcome("fd", env)
       IN  wcall' =
             IF oomFd
             THEN [op |-> "FindNextFileW", lpFileName |-> NULL,
                   converted |-> NULL, narrowCalled |-> FALSE,
                   narrowRet |-> narrow.ret, narrowRecord |-> narrow.record,
                   wideRet |-> "FALSE", wideRecord |-> "untouched"]
             ELSE IF onFd.ret = "TRUE"
             THEN [op |-> "FindNextFileW", lpFileName |-> NULL,
                   converted |-> NULL, narrowCalled |-> TRUE,
                   narrowRet |-> narrow.ret, narrowRecord |-> narrow.record,
                   wideRet |-> IF ConvertFindDataAToW("fd", lpFindFileData)
                               THEN "TRUE" ELSE "FALSE",
                   wideRecord |-> IF ConvertFindDataAToW("fd", lpFindFileData)
                                  THEN "entry" ELSE "untouched"]
             ELSE [op |-> "FindNextFileW", lpFileName |-> NULL,
                   converted |-> NULL, narrowCalled |-> TRUE,
                   narrowRet |-> narrow.ret, narrowRecord |-> narrow.record,
                   wideRet |-> "FALSE", wideRecord |-> "untouched"]
    /\ UNCHANGED nonWideVars

WideStep ==
    \/ \E w \in WideNames, oom \in BOOLEAN, env \in Environments : CreateFileW(w, oom, env)
    \/ \E w \in WideNames, oom \in BOOLEAN, env \in Environments :
          GetFileAttributesW(w, oom, env)
    \/ \E w \in WideNames, r \in WideRecords, oom \in BOOLEAN, env \in Environments :
          GetFileAttributesExW(w, r, oom, env)
    \/ \E w \in WideNames, oom \in BOOLEAN, env \in Environments :
          SetFileAttributesW(w, oom, env)
    \/ \E w \in WideNames, oom \in BOOLEAN, env \in Environments :
          CreateDirectoryW(w, oom, env)
    \/ \E w \in WideNames, oom \in BOOLEAN, env \in Environments :
          RemoveDirectoryW(w, oom, env)
    \/ \E w \in WideNames, oom \in BOOLEAN, env \in Environments : MoveFileExW(w, oom, env)
    \/ \E w \in WideNames, r \in WideRecords, oomFd \in BOOLEAN, oomName \in BOOLEAN,
          env \in Environments : FindFirstFileW(w, r, oomFd, oomName, env)
    \/ \E r \in WideRecords, oomFd \in BOOLEAN, env \in Environments :
          FindNextFileW(r, oomFd, env)

\* ------------------------------------------------------------------------
\* The OSS capture device (audin_oss.c:120-338)
\* ------------------------------------------------------------------------

MaxFrames == 2
MaxCalls == 2

CHANNEL_RC_OK == "CHANNEL_RC_OK"

\* AUDIO_FORMAT values passed to audin_oss_set_format.
AudioFormats == [nChannels : {1, 2}, wBitsPerSample : {8, 12, 16}]

\* The largest buffer_size of these formats.
MaxBufferSize == MaxFrames * 2 * (16 \div 8)

\* The device after calloc in the subsystem entry (audin_oss.c:451).
NoDevice ==
    [FramesPerPacket |-> 0, format |-> [nChannels |-> 0, wBitsPerSample |-> 0],
     stopEvent |-> NULL, thread |-> NULL, receive |-> NULL, user_data |-> NULL]

\* The locals of audin_oss_thread_func (lines 143-152) before the thread
\* runs, and three history fields: the exit path taken, and the reads and
\* the callbacks made after the stop event was set.
NoThread ==
    [pc |-> "none", buffer_size |-> 0, stmp |-> 0, error |-> 0,
     pcm_handle |-> "-1", buffer |-> NULL, exit |-> "none",
     readsAfterStop |-> 0, callsAfterStop |-> 0]
NoDelivery == [calls |-> 0, size |-> 0, stmp |-> 0, result |-> 0]
NoOssCall == [op |-> "none", phase |-> "done", ret |-> "none", signalled |-> FALSE,
              waited |-> FALSE]

AudinIdle ==
    /\ oss = NoDevice
    /\ stopEventSet = FALSE
    /\ captureThread = NoThread
    /\ delivered = NoDelivery
    /\ osscall = NoOssCall

\* audin_oss_set_format (lines 120-139).
audin_oss_set_format(format, FramesPerPacket) ==
    /\ osscall.phase = "done"
    /\ oss' = [oss EXCEPT !.FramesPerPacket = FramesPerPacket, !.format = format]
    /\ osscall' = [op |-> "audin_oss_set_format", phase |-> "done",
                   ret |-> CHANNEL_RC_OK, signalled |-> FALSE, waited |-> FALSE]
    /\ UNCHANGED <<stopEventSet, captureThread, delivered, nonAudinVars>>

\* audin_oss_open (lines 282-303).
audin_oss_open(receive, user_data, eventFails, threadFails) ==
    /\ osscall.phase = "done"
    /\ IF eventFails
       THEN /\ oss' = [oss EXCEPT !.receive = receive, !.user_data = user_data,
                                  !.stopEvent = NULL]
            /\ osscall' = [op |-> "audin_oss_open", phase |-> "done",
                           ret |-> "ERROR_INTERNAL_ERROR", signalled |-> FALSE,
                           waited |-> FALSE]
            /\ UNCHANGED <<stopEventSet, captureThread>>
       ELSE IF threadFails
       THEN /\ oss' = [oss EXCEPT !.receive = receive, !.user_data = user_data,
                                  !.stopEvent = NULL, !.thread = NULL]
            /\ osscall' = [op |-> "audin_oss_open", phase |-> "done",
                           ret |-> "ERROR_INTERNAL_ERROR", signalled |-> FALSE,
                           waited |-> FALSE]
            /\ UNCHANGED <<stopEventSet, captureThread>>
       ELSE /\ oss' = [oss EXCEPT !.receive = receive, !.user_data = user_data,
                                  !.stopEvent = "event", !.thread = "thread"]
            /\ stopEventSet' = FALSE
            /\ captureThread' = [NoThread EXCEPT !.pc = "start"]
            /\ osscall' = [op |-> "audin_oss_open", phase |-> "done",
                           ret |-> CHANNEL_RC_OK, signalled |-> FALSE,
                           waited |-> FALSE]
    /\ UNCHANGED <<delivered, nonAudinVars>>

\* audin_oss_close (lines 310-338) up to its wait for the thread, or to its
\* end if there is no stop event.
audin_oss_close ==
    /\ osscall.phase = "done"
    /\ IF oss.stopEvent # NULL
       THEN /\ stopEventSet' = TRUE
            /\ osscall' = [op |-> "audin_oss_close", phase |-> "waiting",
                           ret |-> "none", signalled |-> TRUE, waited |-> TRUE]
            /\ UNCHANGED oss
       ELSE /\ oss' = [oss EXCEPT !.receive = NULL, !.user_data = NULL]
            /\ osscall' = [op |-> "audin_oss_close", phase |-> "done",
                           ret |-> CHANNEL_RC_OK, signalled |-> FALSE,
                           waited |-> FALSE]
            /\ UNCHANGED stopEventSet
    /\ UNCHANGED <<captureThread, delivered, nonAudinVars>>

\* Mutant of WaitForThread: the wait returns while the thread runs.
WaitForThread_noWait(position) == TRUE

\* WaitForSingleObject(oss->thread, INFINITE) returns WAIT_OBJECT_0 (line
\* 321): the thread has ended.
WaitForThread(position) == position = "exited"

\* audin_oss_close from the return of its wait on (lines 321-337).
audin_oss_close_Wait(waitFailed) ==
    /\ osscall.phase = "waiting"
    /\ IF waitFailed
       THEN /\ osscall' = [osscall EXCEPT !.phase = "done", !.ret = "GetLastError"]
            /\ UNCHANGED oss
       ELSE /\ WaitForThread(captureThread.pc)
            /\ oss' = [oss EXCEPT !.stopEvent = NULL, !.thread = NULL,
                                  !.receive = NULL, !.user_data = NULL]
            /\ osscall' = [osscall EXCEPT !.phase = "done", !.ret = CHANNEL_RC_OK]
    /\ UNCHANGED <<stopEventSet, captureThread, delivered, nonAudinVars>>

\* buffer_size (lines 216-217).
BufferSize(FramesPerPacket, format) ==
    FramesPerPacket * format.nChannels * (format.wBitsPerSample \div 8)

\* Mutant of err_out: the sound device stays open.
err_out_noClose(thread) ==
    [thread EXCEPT !.pc = "exited", !.stmp = 0, !.buffer_size = 0,
                   !.buffer = IF @ = "allocated" THEN "freed" ELSE @]

\* The err_out label (lines 261-274): close(pcm_handle) unless it is -1,
\* free(buffer), ExitThread.  The locals stmp and buffer_size end with the
\* thread; pcm_handle and buffer stay as the record of what was released.
err_out(thread) ==
    [thread EXCEPT !.pc = "exited", !.stmp = 0, !.buffer_size = 0,
                   !.pcm_handle = IF @ # "-1" THEN "closed" ELSE @,
                   !.buffer = IF @ = "allocated" THEN "freed" ELSE @]

\* audin_oss_thread_func from its start to the loop (lines 141-225).
Thread_Start(openFails, callocFails) ==
    /\ captureThread.pc = "start"
    /\ captureThread' =
          IF openFails
          THEN err_out([captureThread EXCEPT !.error = 1, !.exit = "open"])
          ELSE IF callocFails
          THEN err_out([captureThread EXCEPT !.error = 1, !.exit = "calloc",
                   !.pcm_handle = "open",
                   !.buffer_size = BufferSize(oss.FramesPerPacket, oss.format)])
          ELSE [captureThread EXCEPT !.pc = "wait",
                   !.pcm_handle = "open", !.buffer = "allocated",
                   !.buffer_size = BufferSize(oss.FramesPerPacket, oss.format)]
    /\ UNCHANGED <<oss, stopEventSet, delivered, osscall, nonAudinVars>>

\* The test of the stop event (lines 230-240).
Thread_Wait(waitFailed) ==
    /\ captureThread.pc = "wait"
    /\ captureThread' =
          IF waitFailed
          THEN err_out([captureThread EXCEPT !.error = 1, !.exit = "wait"])
          ELSE IF stopEventSet THEN err_out([captureThread EXCEPT !.exit = "stop"])
          ELSE [captureThread EXCEPT !.pc = "read"]
    /\ UNCHANGED <<oss, stopEventSet, delivered, osscall, nonAudinVars>>

\* One more, up to MaxCalls, if the stop event is set.
CountAfterStop(n) ==
    IF stopEventSet /\ n < MaxCalls THEN n + 1 ELSE n

\* Mutant of NotEnoughData: a short read is taken as complete.
NotEnoughData_never(stmp, buffer_size) == FALSE

\* (size_t)stmp < buffer_size (line 251)
NotEnoughData(stmp, buffer_size) == stmp < buffer_size

\* read and the tests of its result (lines 242-252); read returns -1 or the
\* number of bytes read, at most buffer_size.
Thread_Read(stmp) ==
    /\ captureThread.pc = "read"
    /\ stmp <= captureThread.buffer_size
    /\ captureThread' =
          [captureThread EXCEPT
              !.stmp = stmp,
              !.readsAfterStop = CountAfterStop(@),
              !.pc = IF stmp < 0 THEN "wait"
                     ELSE IF NotEnoughData(stmp, captureThread.buffer_size)
                     THEN "wait"
                     ELSE "receive"]
    /\ UNCHANGED <<oss, stopEventSet, delivered, osscall, nonAudinVars>>

\* The call of oss->receive and the test of its result (lines 254-258).
Thread_Receive(result) ==
    /\ captureThread.pc = "receive"
    /\ delivered' = [calls |-> IF delivered.calls < MaxCalls THEN delivered.calls + 1
                               ELSE MaxCalls,
                     size |-> captureThread.buffer_size,
                     stmp |-> captureThread.stmp, result |-> result]
    /\ captureThread' =
          IF result # 0
          THEN err_out([captureThread EXCEPT !.error = result, !.exit = "receive",
                                             !.callsAfterStop = CountAfterStop(@)])
          ELSE [captureThread EXCEPT !.pc = "wait",
                                     !.callsAfterStop = CountAfterStop(@)]
    /\ UNCHANGED <<oss, stopEventSet, osscall, nonAudinVars>>

\* The plugin sets the format of a device that is not open.
Plugin_SetFormat(format, FramesPerPacket) ==
    /\ oss.stopEvent = NULL
    /\ audin_oss_set_format(format, FramesPerPacket)

\* The plugin opens a device that is not open.
Plugin_Open(eventFails, threadFails) ==
    /\ oss.stopEvent = NULL
    /\ audin_oss_open("receive", "user_data", eventFails, threadFails)

AudinStep ==
    \/ \E format \in AudioFormats, FramesPerPacket \in 1..MaxFrames :
          Plugin_SetFormat(format, FramesPerPacket)
    \/ \E eventFails \in BOOLEAN, threadFails \in BOOLEAN :
          Plugin_Open(eventFails, threadFails)
    \/ audin_oss_close
    \/ \E waitFailed \in BOOLEAN : audin_oss_close_Wait(waitFailed)
    \/ \E openFails \in BOOLEAN, callocFails \in BOOLEAN :
          Thread_Start(openFails, callocFails)
    \/ \E waitFailed \in BOOLEAN : Thread_Wait(waitFailed)
    \/ \E stmp \in (-1)..MaxBufferSize : Thread_Read(stmp)
    \/ \E result \in {0, 1} : Thread_Receive(result)

\* The steps of the capture thread.
ThreadStep ==
    \/ \E openFails \in BOOLEAN, callocFails \in BOOLEAN :
          Thread_Start(openFails, callocFails)
    \/ \E waitFailed \in BOOLEAN : Thread_Wait(waitFailed)
    \/ \E stmp \in (-1)..MaxBufferSize : Thread_Read(stmp)
    \/ \E result \in {0, 1} : Thread_Receive(result)

\* ------------------------------------------------------------------------
\* Claims about the registry
\* ------------------------------------------------------------------------

\* The creator list a completed initialisation leaves behind.
FullList ==
    IF serialAvailable THEN <<"pipe", "comm", "file">> ELSE <<"pipe", "file">>

\* The creator the claimed first-match rule selects for a name: named-pipe
\* client, then serial when available, then regular file; "none" if no
\* creator accepts the name.
ExpectedCreator(name) ==
    IF IsHandled("pipe", name) THEN "pipe"
    ELSE IF serialAvailable /\ IsHandled("comm", name) THEN "comm"
    ELSE IF IsHandled("file", name) THEN "file"
    ELSE "none"

InitStates == {"init_new", "init_1", "init_2", "init_3"}

\* C1: However many threads call CreateFileA concurrently as first callers,
\* HandleCreatorsInit is entered at most once, no thread is past pthread_once
\* before the initializer has completed (exactly one run), and every thread
\* that takes the lock or iterates does so on the fully populated list.
C1_SingleInit ==
    /\ initRuns <= 1
    /\ Cardinality({t \in Threads : pc[t] \in InitStates}) <= 1
    /\ \A t \in Threads :
          /\ pc[t] \in {"check", "lock", "loop"} =>
                (HandleCreatorsInitialized = "DONE" /\ initRuns = 1)
          /\ pc[t] \in {"lock", "loop"} => HandleCreators = FullList

\* C1 witness: one first caller is inside the initializer with one creator
\* registered so far while another first caller waits in pthread_once.
C1_Witness ==
    \E t1, t2 \in Threads :
        /\ t1 # t2
        /\ pc[t1] = "init_2"
        /\ pc[t2] = "once"
        /\ HandleCreators = <<"pipe">>

\* C2: A returned call with a non-null name on an initialised registry asked
\* exactly the first creator in registration order that accepts the name to
\* open it (nobody if none accepts), and returns what that creator returned;
\* the selection depends on the name alone, so repeating the call selects
\* the same creator.
C2_FirstMatch ==
    \A t \in Threads :
        (pc[t] = "ret" /\ lpFileName[t] # NULL /\ ~InitFailed) =>
            LET c == ExpectedCreator(lpFileName[t])
            IN  IF c = "none"
                THEN opened[t] = {} /\ ret[t] = INVALID_HANDLE_VALUE
                ELSE /\ opened[t] = {c}
                     /\ ret[t] \in {HandleOf(c), INVALID_HANDLE_VALUE}

\* C2 witness: a name that both the named-pipe and the file creator accept
\* was opened by the named-pipe creator.
C2_Witness ==
    \E t \in Threads :
        /\ pc[t] = "ret"
        /\ lpFileName[t] = "pipe"
        /\ IsHandled("file", "pipe")
        /\ opened[t] = {"pipe"}
        /\ ret[t] = "pipe_handle"

\* C3 as stated: after a failed initialisation every CreateFileA call made
\* afterwards returns INVALID_HANDLE_VALUE with last-error
\* ERROR_DLL_INIT_FAILED, the initialisation is not retried and no creator
\* is consulted.
C3_Original ==
    /\ initRuns <= 1
    /\ \A t \in Threads :
          (pc[t] = "ret" /\ afterFail[t]) =>
              /\ ret[t] = INVALID_HANDLE_VALUE
              /\ lastError[t] = ERROR_DLL_INIT_FAILED
              /\ asked[t] = {}
              /\ opened[t] = {}

\* C3 amended: after a failed initialisation every CreateFileA call with a
\* non-null file name returns INVALID_HANDLE_VALUE with last-error
\* ERROR_DLL_INIT_FAILED; the initialisation is never retried, the failure
\* is permanent, and no call consults a creator.
C3_InitFailureIsPermanent ==
    /\ initRuns <= 1
    /\ InitFailed =>
          \A t \in Threads :
              /\ pc[t] \notin InitStates \cup {"lock", "loop"}
              /\ asked[t] = {} /\ opened[t] = {}
              /\ pc[t] = "ret" => ret[t] = INVALID_HANDLE_VALUE
              /\ (pc[t] = "ret" /\ lpFileName[t] # NULL) =>
                     (lastError[t] = ERROR_DLL_INIT_FAILED /\ errSet[t])

\* C3 witness: a call with a non-null name that started after the failed
\* initialisation has returned the failure.
C3_Witness ==
    \E t \in Threads :
        /\ afterFail[t]
        /\ pc[t] = "ret"
        /\ lpFileName[t] # NULL
        /\ ret[t] = INVALID_HANDLE_VALUE
        /\ lastError[t] = ERROR_DLL_INIT_FAILED

\* C4 as stated: a CreateFileA call that fails inside the resolver (null
\* name, failed initialisation, or no creator claiming the name: no creator
\* was asked to open) returns INVALID_HANDLE_VALUE and has set the last-error
\* code during the call.
C4_FailureSetsLastError ==
    \A t \in Threads :
        (pc[t] = "ret" /\ opened[t] = {}) =>
            (ret[t] = INVALID_HANDLE_VALUE /\ errSet[t])

\* C33 as stated: the resolution loop of CreateFileA passes only the
\* indices 0 .. Count-1 to ArrayList_GetItem, Count being the number of
\* registered creators; it never requests the item at index Count or beyond.
C33_IndicesBelowCount ==
    \A t \in Threads :
        \A i \in requested[t] : i < ArrayList_Count(HandleCreators)

\* C32: a CreateFileA call that took the creator-list lock releases it
\* exactly once before it returns, on the matched and on the no-match path;
\* the lock is held whenever an IsHandled predicate or a creator's open
\* runs, so at most one thread is inside the resolution loop, and no call
\* returns holding the lock.
C32_LockDiscipline ==
    /\ [](\A t \in Threads :
            /\ lockCalls[t] <= 1
            /\ pc[t] = "loop" => (listLock = t /\ lockCalls[t] = 1 /\ unlockCalls[t] = 0)
            /\ pc[t] = "ret" => (listLock # t /\ unlockCalls[t] = lockCalls[t])
            /\ pc[t] \notin {"loop", "ret"} => listLock # t)
    /\ [](Cardinality({t \in Threads : pc[t] = "loop"}) <= 1)
    /\ [][\A t \in Threads :
              (asked'[t] \ asked[t] # {} \/ opened'[t] \ opened[t] # {}) =>
                  (listLock = t /\ \A u \in Threads \ {t} : pc[u] # "loop")]_vars

\* C32 witness: one call has returned from the matched path and one from
\* the no-match path, each having locked once and unlocked once, and the
\* lock is free.
C32_Witness ==
    \E t, u \in Threads :
        /\ pc[t] = "ret" /\ opened[t] # {}
        /\ pc[u] = "ret" /\ opened[u] = {} /\ asked[u] # {}
        /\ lockCalls[t] = 1 /\ unlockCalls[t] = 1
        /\ lockCalls[u] = 1 /\ unlockCalls[u] = 1
        /\ listLock = 0

\* C32 witness of contention: one thread is inside the resolution loop while
\* another waits at ArrayList_Lock.
C32_Contention ==
    \E t, u \in Threads : pc[t] = "loop" /\ idx[t] > 0 /\ pc[u] = "lock"

\* ------------------------------------------------------------------------
\* Claims about the dispatcher
\* ------------------------------------------------------------------------

Called == dcall.op # "none"
BothNull(args) == args.lpNumberOfBytes = NULL /\ args.lpOverlapped = NULL
EntryPresent == dcall.hFile \in DHandles /\ dcall.op \in opsTable[dcall.hFile]
EntryAbsent == dcall.hFile \in DHandles /\ dcall.op \notin opsTable[dcall.hFile]
ForwardedOnce ==
    /\ Len(dcall.fwd) = 1
    /\ dcall.fwd[1] = [op |-> dcall.op, handle |-> dcall.hFile, args |-> dcall.args]
    /\ dcall.ret = dcall.calleeRet

\* C5: A call on a valid handle whose entry for the operation is absent
\* returns FALSE / 0, calls no handle operation and leaves the handle as it
\* was; and when the call that follows it on the same handle is for an entry
\* that is present (and passes ReadFile's argument check), that call is
\* forwarded.
C5_AbsentEntry ==
    [][ /\ (Called' /\ EntryAbsent') =>
              (dcall'.ret = 0 /\ dcall'.fwd = <<>> /\ hstate' = hstate)
        /\ (Called /\ EntryAbsent /\ EntryPresent' /\ dcall'.hFile = dcall.hFile
            /\ ~(dcall'.op = "ReadFile" /\ BothNull(dcall'.args))) =>
              ForwardedOnce'
      ]_vars

\* C5 witness: SetEndOfFile was called on a handle that has only the read
\* and write entries.
C5_Witness ==
    /\ dcall.op = "SetEndOfFile"
    /\ dcall.hFile \in DHandles
    /\ opsTable[dcall.hFile] = {"ReadFile", "WriteFile"}
    /\ dcall.ret = 0

\* C6: A dispatcher call that was passed INVALID_HANDLE_VALUE returned its
\* failure value FALSE / 0 without resolving handle info, without reading an
\* operation table and without invoking a handle operation.
C6_InvalidHandleRejected ==
    (Called /\ dcall.hFile = INVALID_HANDLE_VALUE) =>
        /\ dcall.ret = 0
        /\ ~dcall.getInfo
        /\ ~dcall.opsRead
        /\ dcall.fwd = <<>>
        /\ hstate = dcall.before

\* C6 witness: GetFileSize was called with INVALID_HANDLE_VALUE.
C6_Witness ==
    /\ dcall.op = "GetFileSize"
    /\ dcall.hFile = INVALID_HANDLE_VALUE
    /\ dcall.ret = 0

\* C7 as stated: for a valid handle whose entry is present, every entry point
\* calls the entry exactly once with the caller's arguments and returns the
\* value the entry returned.
C7_Original ==
    (Called /\ EntryPresent) => ForwardedOnce

\* C7 amended: the same, except that ReadFile called with both
\* lpNumberOfBytesRead and lpOverlapped null returns FALSE without calling
\* the entry.
C7_ForwardedVerbatim ==
    /\ (Called /\ EntryPresent /\ ~(dcall.op = "ReadFile" /\ BothNull(dcall.args))) =>
          ForwardedOnce
    /\ (Called /\ EntryPresent /\ dcall.op = "ReadFile" /\ BothNull(dcall.args)) =>
          (dcall.fwd = <<>> /\ dcall.ret = 0)
    /\ Len(dcall.fwd) <= 1

\* C7 witness: SetFilePointer was forwarded and the caller got the non-BOOL
\* value the handle's operation returned.
C7_Witness ==
    /\ dcall.op = "SetFilePointer"
    /\ EntryPresent
    /\ ForwardedOnce
    /\ dcall.ret = MaxResult

\* C8 as stated: ReadFile and WriteFile return FALSE without forwarding when
\* both the bytes-transferred pointer and the overlapped pointer are null.
C8_NullOutputsRejected ==
    (dcall.op \in {"ReadFile", "WriteFile"} /\ BothNull(dcall.args)) =>
        (dcall.ret = 0 /\ dcall.fwd = <<>>)

\* ------------------------------------------------------------------------
\* Claims about the directory search
\* ------------------------------------------------------------------------

\* The entry at stream position p is one a search for pattern must report.
Eligible(p, pattern) ==
    /\ FilePatternMatchA(dirEntries[p].name, pattern)
    /\ dirEntries[p].ok
    /\ dirEntries[p].kind # "fifo"

EligibleUpTo(n, pattern) ==
    SelectSeq([p \in 1..n |-> p], LAMBDA p : Eligible(p, pattern))

\* The call made last returned an entry through handle s.
ReportedThrough(s) ==
    /\ scall.hFindFile = s
    /\ \/ scall.op = "FindFirstFileA" /\ scall.ret = s
       \/ scall.op = "FindNextFileA" /\ scall.ret = "TRUE"

EnumerationExact(s) ==
    /\ shist[s].reported = EligibleUpTo(search[s].cursor, search[s].lpPattern)
    /\ ReportedThrough(s) =>
          /\ shist[s].reported # <<>>
          /\ search[s].cursor = shist[s].reported[Len(shist[s].reported)]
          /\ scall.data.cFileName = dirEntries[search[s].cursor].name

FindNextOn(s) ==
    /\ scall'.op = "FindNextFileA"
    /\ scall'.hFindFile = s

\* A FindNextFileA call on an exhausted handle s reports "no more files"
\* and has no other effect.
StaysExhausted(s) ==
    /\ scall'.ret = "FALSE"
    /\ searchLastError' = "ERROR_NO_MORE_FILES"
    /\ scall'.data = EmptyFindData
    /\ scall'.allocs = 0
    /\ heap' = heap
    /\ search'[s] = search[s]
    /\ shist'[s].exhausted

\* A FindClose call on an exhausted handle s closes it.
ClosesExhausted(s) ==
    (scall'.op = "FindClose" /\ scall'.hFindFile = s) =>
        /\ scall'.ret = "TRUE"
        /\ search'[s].state = "freed"
        /\ heap' = HeapMinus(heap, Released(TRUE, TRUE, TRUE))

\* C10 as stated: once FindNextFileA has reported ERROR_NO_MORE_FILES on a
\* handle, every later FindNextFileA call on that handle returns FALSE with
\* last-error ERROR_NO_MORE_FILES, returns no record, allocates nothing and
\* leaves path, pattern and stream unchanged, and FindClose closes it.
C10_Original ==
    [][\A s \in SearchSlots :
          shist[s].exhausted =>
             /\ FindNextOn(s) => StaysExhausted(s)
             /\ ClosesExhausted(s)]_vars

\* C10, amended: once FindNextFileA has reported ERROR_NO_MORE_FILES on a
\* handle, every later FindNextFileA call on that handle with a non-null
\* record pointer returns FALSE with last-error ERROR_NO_MORE_FILES, returns
\* no record, allocates nothing and leaves path, pattern and stream
\* unchanged, and FindClose closes it.
C10_ExhaustionIdempotent ==
    [][\A s \in SearchSlots :
          shist[s].exhausted =>
             /\ (FindNextOn(s) /\ scall'.lpFindFileData # NULL) => StaysExhausted(s)
             /\ ClosesExhausted(s)]_vars

\* C10's case: FindNextFileA was called MaxRepeat times on a handle after it
\* was exhausted, the last of them just now.
C10_Witness ==
    \E s \in SearchSlots :
       /\ shist[s].exhausted
       /\ shist[s].repeats = MaxRepeat
       /\ scall.op = "FindNextFileA"
       /\ scall.hFindFile = s
       /\ scall.lpFindFileData # NULL
       /\ scall.ret = "FALSE"
       /\ searchLastError = "ERROR_NO_MORE_FILES"

\* A step is a FindNextFileA or FindClose call with handle value h.
NextOrCloseOn(h) ==
    /\ scall'.op \in {"FindNextFileA", "FindClose"}
    /\ scall'.hFindFile = h

\* The call of this step returned FALSE and released or changed nothing.
RejectedUntouched ==
    /\ scall'.ret = "FALSE"
    /\ heap' = heap
    /\ search' = search
    /\ ~corrupt'

\* C11: after FindClose has succeeded on a handle, every FindClose and
\* FindNextFileA call on the same handle value returns FALSE and releases
\* nothing a second time.
C11_ClosedIsTerminal ==
    [][\A s \in SearchSlots :
          (search[s].state = "freed" /\ NextOrCloseOn(s)) => RejectedUntouched]_vars

\* C12: FindNextFileA and FindClose given NULL, INVALID_HANDLE_VALUE or an
\* object whose tag is not the search magic return FALSE, change no field of
\* any search structure and free nothing.
C12_ForeignHandleRejected ==
    [][\A h \in SearchHandleValues \ SearchSlots :
          NextOrCloseOn(h) => RejectedUntouched]_vars

\* C12's case: FindClose was just called with an object that is no search
\* handle while a search is open, and the search is still open.
C12_Witness ==
    /\ scall.op = "FindClose"
    /\ scall.hFindFile = "garbage"
    /\ scall.ret = "FALSE"
    /\ \E s \in SearchSlots : search[s].state = "live" /\ search[s].dirOpen

\* C13: every FindFirstFileA call that fails returns INVALID_HANDLE_VALUE
\* and leaves allocated no structure, string or directory stream that it
\* created, and no search structure changed.
C13_FailureLeavesNothing ==
    [][(scall'.op = "FindFirstFileA" /\ scall'.ret \notin SearchSlots) =>
          /\ scall'.ret = INVALID_HANDLE_VALUE
          /\ heap' = heap
          /\ search' = search]_vars

\* C13's case: FindFirstFileA opened the directory, allocated path buffers
\* for entries it then passed over, and failed at the end of the stream.
C13_Witness ==
    /\ scall.op = "FindFirstFileA"
    /\ scall.ret = INVALID_HANDLE_VALUE
    /\ scall.allocs > 0
    /\ searchLastError = "ERROR_NO_MORE_FILES"
    /\ heap = NoHeap

\* C14: whenever FindFirstFileA returns INVALID_HANDLE_VALUE and was given a
\* record pointer, the record has been written and is entirely zero.
C14_ZeroRecordOnFailure ==
    (/\ scall.op = "FindFirstFileA"
     /\ scall.ret = INVALID_HANDLE_VALUE
     /\ scall.lpFindFileData # NULL)
        => (scall.written /\ scall.data = EmptyFindData)

\* The entry at stream position p is a FIFO.
IsFifoAt(p) == dirEntries[p].kind = "fifo"

\* C15: no entry reported through a search handle is a FIFO, for any
\* pattern and any position of the FIFO in the stream, and the record
\* returned by a successful call names the entry that follows the FIFOs
\* passed over.
C15_FifoNeverReported ==
    \A s \in SearchSlots :
       search[s].state = "live" =>
          /\ \A i \in 1..Len(shist[s].reported) : ~IsFifoAt(shist[s].reported[i])
          /\ ReportedThrough(s) =>
                /\ ~IsFifoAt(search[s].cursor)
                /\ scall.data.cFileName = dirEntries[search[s].cursor].name

\* C15's case: a match-all search has just reported the entry that follows
\* a FIFO in the stream.
C15_Witness ==
    \E s \in SearchSlots :
       /\ search[s].state = "live"
       /\ search[s].lpPattern = <<"*">>
       /\ ReportedThrough(s)
       /\ search[s].cursor > 1
       /\ IsFifoAt(search[s].cursor - 1)

\* ------------------------------------------------------------------------
\* Specifications
\* ------------------------------------------------------------------------

\* C24: when the directory portion of the path given to FindFirstFileA
\* cannot be opened but the whole path is a directory that can, the handle is
\* created with the whole path as its path and "*" as its pattern (unless an
\* allocation fails); the whole path is tried only after the first open
\* failed, so that a handle whose directory portion opens keeps the caller's
\* prefix and pattern.
C24_FallbackPolicy ==
    (scall.op = "FindFirstFileA" /\ scall.stage \in {"ok", "new"}) =>
        LET name == scall.lpName
            ptr == strrchr(name, Sep)
            prefix == SubSeq(name, 1, ptr)
            pattern == SubSeq(name, ptr + 1, Len(name))
            whole == stat(name).ok /\ stat(name).kind = "dir" /\ opendir(name)
        IN  /\ scall.stage = "ok" =>
                  IF opendir(prefix)
                  THEN /\ search[scall.ret].lpPath = prefix
                       /\ search[scall.ret].lpPattern = pattern
                  ELSE /\ whole
                       /\ search[scall.ret].lpPath = name
                       /\ search[scall.ret].lpPattern = <<"*">>
            /\ (scall.stage = "new" /\ scall.failing = "none") =>
                  ~opendir(prefix) /\ ~whole

\* C24's case: FindFirstFileA("/d") could not open "/", opened "/d" itself
\* and returned an entry of it.
C24_Witness ==
    /\ scall.op = "FindFirstFileA"
    /\ scall.stage = "ok"
    /\ scall.lpName = <<"/", "d">>
    /\ search[scall.ret].lpPath = <<"/", "d">>
    /\ scall.data.cFileName # <<>>

\* C25: FindFirstFileA is "open the search handle, then one FindNextFileA":
\* it returns a handle if and only if file_search_new gave one and the first
\* FindNextFileA on it returned TRUE; the record handed back (and the
\* position of the stream) is what that FindNextFileA produced; when that
\* FindNextFileA fails the fresh handle is closed and nothing of it is left
\* before INVALID_HANDLE_VALUE is returned.
C25_FirstIsOpenThenNext ==
    scall.op = "FindFirstFileA" =>
        /\ scall.ret # INVALID_HANDLE_VALUE <=> scall.stage = "ok"
        /\ scall.stage \in {"ok", "next"} =>
              LET name == scall.lpName
                  ptr == strrchr(name, Sep)
                  new == file_search_new(name, ptr, SubSeq(name, ptr + 1, Len(name)),
                                         Len(name) - ptr, "none")
              IN  /\ new.ok
                  /\ \E oomPos \in 0..Len(dirEntries) :
                        LET first == FindNextLoop(new.lpPath, new.lpPattern, 0, oomPos,
                                                  EmptyFindData, "unchanged", 0)
                        IN  /\ first.ret <=> scall.stage = "ok"
                            /\ scall.data = first.data
                            /\ scall.allocs = first.allocs
                            /\ first.ret => /\ IsLive(scall.ret)
                                            /\ search[scall.ret].cursor = first.pos
                                            /\ search[scall.ret].lpPath = new.lpPath
                                            /\ search[scall.ret].lpPattern = new.lpPattern
                            /\ ~first.ret => /\ \A s \in SearchSlots : ~IsLive(s)
                                             /\ heap = NoHeap
                                             /\ first.err = searchLastError

\* C25's case: the handle was opened, the first FindNextFileA read entries
\* and failed, and the handle was closed again.
C25_Witness ==
    /\ scall.op = "FindFirstFileA"
    /\ scall.stage = "next"
    /\ scall.allocs > 0
    /\ scall.ret = INVALID_HANDLE_VALUE
    /\ heap = NoHeap

\* The stream position of the first entry after position c that a search
\* for pattern must report, 0 if there is none.
FirstEligibleAfter(c, pattern) ==
    IF \E q \in (c + 1)..Len(dirEntries) : Eligible(q, pattern)
    THEN CHOOSE q \in (c + 1)..Len(dirEntries) :
            /\ Eligible(q, pattern)
            /\ \A x \in (c + 1)..(q - 1) : ~Eligible(x, pattern)
    ELSE 0

\* A FindNextFileA call on the open handle s with a record is about to meet,
\* before any entry it can report, a matching entry whose stat fails.
MeetsFailedStat(s) ==
    LET c == search[s].cursor
        q == FirstEligibleAfter(c, search[s].lpPattern)
        last == IF q = 0 THEN Len(dirEntries) ELSE q - 1
    IN  \E p \in (c + 1)..last :
           /\ FilePatternMatchA(dirEntries[p].name, search[s].lpPattern)
           /\ ~dirEntries[p].ok

\* The call of this step skipped the entries whose stat failed: it returned
\* the next entry to report with last-error the mapped stat error, or, if
\* there is none, failed at the end of the stream.
SkippedFailedStat(s) ==
    LET q == FirstEligibleAfter(search[s].cursor, search[s].lpPattern)
    IN  IF q # 0
        THEN /\ scall'.ret = "TRUE"
             /\ scall'.data.cFileName = dirEntries[q].name
             /\ search'[s].cursor = q
             /\ searchLastError' = map_posix_err("ENOENT")
        ELSE /\ scall'.ret = "FALSE"
             /\ search'[s].cursor = Len(dirEntries)
             /\ searchLastError' = "ERROR_NO_MORE_FILES"

\* The call of this step failed to allocate a path buffer.
AllocationFailed ==
    scall'.ret = "FALSE" /\ searchLastError' = "ERROR_NOT_ENOUGH_MEMORY"

MoveDone == mcall.op # "none" /\ mcall.phase = "done"
Replacing == "MOVEFILE_REPLACE_EXISTING" \in mcall.dwFlags

\* The call returned FALSE with last-error err before calling rename.
RefusedWith(err) ==
    /\ mcall.ret = "FALSE"
    /\ moveLastError = err
    /\ ~mcall.renamed

\* C16: a finished MoveFileExA call that found the destination present
\* returned FALSE with ERROR_ALREADY_EXISTS and called no rename if the
\* replace flag was absent, and returned FALSE with ERROR_ACCESS_DENIED and
\* called no rename if the flag was given and the destination lacked the
\* owner-write bit; every other call called rename.  MoveFileA is
\* MoveFileExA without flags.
C16_MoveSemantics ==
    /\ MoveDone =>
          /\ (~Replacing /\ mcall.destPresent) => RefusedWith("ERROR_ALREADY_EXISTS")
          /\ (Replacing /\ mcall.destPresent /\ ~mcall.destWusr)
                => RefusedWith("ERROR_ACCESS_DENIED")
          /\ (~mcall.destPresent \/ (Replacing /\ mcall.destWusr)) => mcall.renamed
    /\ mcall.op = "MoveFileA" => ~Replacing

\* C16's case: MoveFileExA with the replace flag has just replaced a
\* writable destination by the source.
C16_Witness ==
    /\ MoveDone
    /\ mcall.op = "MoveFileExA"
    /\ Replacing
    /\ mcall.destPresent
    /\ mcall.destWusr
    /\ mcall.renamed
    /\ mcall.ret = "TRUE"
    /\ mcall.lpExistingFileName # mcall.lpNewFileName
    /\ ~files[mcall.lpExistingFileName].present

\* C29: MoveFileExA without MOVEFILE_REPLACE_EXISTING never replaces an
\* existing destination, whatever another process does between the test of
\* the destination and the rename: whenever its rename succeeds, the
\* destination did not exist at the moment of the rename.
C29_NeverReplacesUnasked ==
    [][(/\ mcall.phase = "rename"
        /\ mcall'.phase = "done"
        /\ mcall'.ret = "TRUE"
        /\ ~Replacing
        /\ mcall.lpExistingFileName # mcall.lpNewFileName)
          => ~files[mcall.lpNewFileName].present]_vars

\* ------------------------------------------------------------------------
\* Claims about the find record
\* ------------------------------------------------------------------------

HasAttribute(bit) == bit \in fdcall.data.dwFileAttributes

\* C17: in every find record made from native metadata the directory bit is
\* set iff the mode is a directory, and the readonly bit iff the owner-write
\* bit is absent, whatever the name and the group and other write bits.
C17_DirectoryAndReadonly ==
    fdcall.done =>
       /\ HasAttribute("FILE_ATTRIBUTE_DIRECTORY") <=> (fdcall.fileStat.kind = "dir")
       /\ HasAttribute("FILE_ATTRIBUTE_READONLY") <=> ~fdcall.fileStat.wusr

\* C17's case: a record was made for a directory that its owner may not
\* write while group and others may, under a name that starts with a dot.
C17_Witness ==
    /\ fdcall.done
    /\ fdcall.fileStat.kind = "dir"
    /\ ~fdcall.fileStat.wusr
    /\ fdcall.fileStat.wgrp
    /\ fdcall.fileStat.woth
    /\ fdcall.name = <<".", "e">>
    /\ HasAttribute("FILE_ATTRIBUTE_DIRECTORY")
    /\ HasAttribute("FILE_ATTRIBUTE_READONLY")

\* C18: in every find record made from native metadata the archive bit is
\* set exactly when none of the directory, hidden and readonly bits is.
C18_ArchiveOnlyByDefault ==
    fdcall.done =>
       (HasAttribute("FILE_ATTRIBUTE_ARCHIVE") <=>
           (/\ ~HasAttribute("FILE_ATTRIBUTE_DIRECTORY")
            /\ ~HasAttribute("FILE_ATTRIBUTE_HIDDEN")
            /\ ~HasAttribute("FILE_ATTRIBUTE_READONLY")))

\* C19: the hidden bit of a find record is set iff the entry name begins
\* with '.' and is not "..", whatever the mode.
C19_HiddenIffDotName ==
    fdcall.done =>
       (HasAttribute("FILE_ATTRIBUTE_HIDDEN") <=>
           (fdcall.name[1] = "." /\ fdcall.name # <<".", ".">>))

\* The 64-bit value of a (high, low) pair of DWORDs: high * 2^32 + low.
Joined(high, low) == high \o low

\* C27: the (high, low) pairs of the find record are the upper and the lower
\* 32 bits of the size and of the three tick counts, so that high * 2^32 +
\* low is the value; the creation time is the birth time where struct stat
\* has one and the change time elsewhere, the last-write time the
\* modification time, the last-access time the access time.
C27_SplitExact ==
    fdcall.done =>
       LET d == fdcall.data
           st == fdcall.fileStat
       IN  /\ Len(d.nFileSizeHigh) = 2 /\ Len(d.nFileSizeLow) = 2
           /\ Joined(d.nFileSizeHigh, d.nFileSizeLow) = st.size
           /\ Joined(d.ftCreationTime.dwHighDateTime, d.ftCreationTime.dwLowDateTime)
                 = IF "birthtime" \in DOMAIN st THEN st.birthtime ELSE st.ctime
           /\ Joined(d.ftLastWriteTime.dwHighDateTime, d.ftLastWriteTime.dwLowDateTime)
                 = st.mtime
           /\ Joined(d.ftLastAccessTime.dwHighDateTime, d.ftLastAccessTime.dwLowDateTime)
                 = st.atime

\* C27's case: a record was made from metadata that has a birth time other
\* than the change time and a size above 2^32.
C27_Witness ==
    /\ fdcall.done
    /\ "birthtime" \in DOMAIN fdcall.fileStat
    /\ fdcall.fileStat.birthtime # fdcall.fileStat.ctime
    /\ fdcall.fileStat.size = <<65535, 65535, 65535, 65535>>
    /\ fdcall.data.nFileSizeHigh = <<65535, 65535>>
    /\ fdcall.data.ftCreationTime.dwLowDateTime = <<65535, 0>>

\* ------------------------------------------------------------------------
\* Claims about file attributes
\* ------------------------------------------------------------------------

\* C20: SetFileAttributesA succeeds on every file that can be opened,
\* whatever bits other than READONLY the mask holds, and GetFileAttributesA
\* on a file reports the READONLY bit iff the mask that SetFileAttributesA
\* set last on that file held it.
C20_ReadonlyRoundTrip ==
    /\ (acall.op = "SetFileAttributesA" /\ open(acall.lpName)) => acall.ret = "TRUE"
    /\ (acall.op = "GetFileAttributesA" /\ aset[Absolute(acall.lpName)] # "unset") =>
          ("FILE_ATTRIBUTE_READONLY" \in acall.attributes
              <=> aset[Absolute(acall.lpName)] = "readonly")

\* C23: GetFileAttributesA and GetFileAttributesExA (given an output record)
\* make one FindFirstFileA lookup; when they return no search structure,
\* string or directory stream of it is left; on success they report exactly
\* the attributes, times and size of the record the lookup produced; when
\* the lookup fails they return INVALID_FILE_ATTRIBUTES and FALSE and the
\* caller's output is as it was.
C23_OneLookupClosed ==
    (\/ acall.op = "GetFileAttributesA"
     \/ acall.op = "GetFileAttributesExA" /\ acall.lpFileInformation # NULL) =>
        LET r == FindFirstThenClose(acall.lpName)
        IN  /\ heap = NoHeap
            /\ \A s \in SearchSlots : ~IsLive(s)
            /\ acall.op = "GetFileAttributesA" =>
                  /\ r.found => acall.attributes = r.data.dwFileAttributes
                  /\ ~r.found => acall.attributes = INVALID_FILE_ATTRIBUTES
            /\ acall.op = "GetFileAttributesExA" =>
                  /\ r.found =>
                        /\ acall.ret = "TRUE"
                        /\ acall.info.dwFileAttributes = r.data.dwFileAttributes
                        /\ acall.info.ftCreationTime = r.data.ftCreationTime
                        /\ acall.info.ftLastAccessTime = r.data.ftLastAccessTime
                        /\ acall.info.ftLastWriteTime = r.data.ftLastWriteTime
                        /\ acall.info.nFileSizeHigh = r.data.nFileSizeHigh
                        /\ acall.info.nFileSizeLow = r.data.nFileSizeLow
                  /\ ~r.found => acall.ret = "FALSE" /\ acall.info = CallerInfo

\* C23's case: GetFileAttributesExA found a file whose size has different
\* halves, copied the record and left nothing open.
C23_Witness ==
    /\ acall.op = "GetFileAttributesExA"
    /\ acall.ret = "TRUE"
    /\ acall.info.nFileSizeHigh # acall.info.nFileSizeLow
    /\ heap = NoHeap

\* ------------------------------------------------------------------------
\* Claims about native errors
\* ------------------------------------------------------------------------

\* C21: whenever mkdir in CreateDirectoryA, rmdir in RemoveDirectoryA,
\* rename in MoveFileExA or the directory open of FindFirstFileA fails, the
\* operation returns its failure value and last-error is the code mapped
\* from the errno of the native call.
C21_NativeErrorsMapped ==
    /\ (dircall.op # "none" /\ dircall.errno # "none") =>
          /\ dircall.ret = "FALSE"
          /\ dirLastError = map_posix_err(dircall.errno)
    /\ (mcall.phase = "done" /\ mcall.errno # "none") =>
          /\ mcall.ret = "FALSE"
          /\ moveLastError = map_posix_err(mcall.errno)
    /\ (scall.op = "FindFirstFileA" /\ scall.errno # "none") =>
          /\ scall.ret = INVALID_HANDLE_VALUE
          /\ searchLastError = map_posix_err(scall.errno)

\* ------------------------------------------------------------------------
\* Claims about the wide entry points
\* ------------------------------------------------------------------------

\* C22: for each narrow/wide pair the wide variant returns exactly the value
\* the narrow variant returns for the corresponding narrow arguments, a null
\* file name included, and has the same effect on the caller's output record.
\* (A call whose name conversion or scratch allocation failed has no
\* corresponding narrow call and is left out.)
C22_WideEqualsNarrow ==
    (wcall.op # "none" /\ (wcall.narrowCalled \/ wcall.lpFileName = NULL)) =>
        /\ wcall.wideRet = wcall.narrowRet
        /\ wcall.wideRecord = wcall.narrowRecord

\* ------------------------------------------------------------------------
\* Claims about the OSS capture device
\* ------------------------------------------------------------------------

\* The number of bytes of one packet in the format of the device.
PacketBytes ==
    oss.FramesPerPacket * oss.format.nChannels * (oss.format.wBitsPerSample \div 8)

\* C28: the capture thread invokes the receive callback only with a buffer
\* of exactly FramesPerPacket * nChannels * (wBitsPerSample / 8) bytes that
\* one read filled completely; a read that fails or returns fewer bytes is
\* discarded without a callback; a non-zero result of the callback ends the
\* loop.
C28_OnlyCompleteBuffers ==
    [][/\ (captureThread.pc = "read" /\ captureThread'.pc # "read") =>
             /\ delivered' = delivered
             /\ captureThread'.stmp < PacketBytes => captureThread'.pc = "wait"
       /\ (captureThread.pc = "receive" /\ captureThread'.pc # "receive") =>
             /\ delivered'.size = PacketBytes
             /\ delivered'.stmp = PacketBytes
             /\ delivered'.result # 0 => captureThread'.pc = "exited"]_vars

\* C28's case: after a short read was discarded, a complete buffer of more
\* than one byte was delivered, and the callback's error ended the thread.
C28_Witness ==
    /\ delivered.calls = MaxCalls
    /\ delivered.size > 1
    /\ delivered.stmp = delivered.size
    /\ delivered.result # 0
    /\ captureThread.pc = "exited"

\* audin_oss_close has returned CHANNEL_RC_OK and no device call was made
\* since.
ClosedOk ==
    /\ osscall.op = "audin_oss_close"
    /\ osscall.phase = "done"
    /\ osscall.ret = CHANNEL_RC_OK

\* C30: after audin_oss_close returned CHANNEL_RC_OK the capture thread has
\* ended and the callback is not invoked again; stopEvent, thread, receive
\* and user_data are NULL; a further audin_oss_close returns CHANNEL_RC_OK
\* without signalling or waiting (until the device is opened again).  So it
\* is when the thread ended on its own and when audin_oss_open failed to
\* create the thread.
C30_CloseIsFinal ==
    [][/\ ClosedOk' =>
             /\ captureThread'.pc \in {"none", "exited"}
             /\ oss'.stopEvent = NULL
             /\ oss'.thread = NULL
             /\ oss'.receive = NULL
             /\ oss'.user_data = NULL
       /\ (ClosedOk /\ osscall'.op = "audin_oss_close") =>
             /\ delivered' = delivered
             /\ captureThread' = captureThread
             /\ stopEventSet' = stopEventSet
             /\ osscall'.phase = "done"
             /\ osscall'.ret = CHANNEL_RC_OK
             /\ osscall' # osscall => (~osscall'.signalled /\ ~osscall'.waited)]_vars

\* C30's case: audin_oss_close signalled the stop event of a thread that had
\* delivered buffers, waited for it and returned CHANNEL_RC_OK.
C30_Witness ==
    /\ ClosedOk
    /\ osscall.signalled
    /\ osscall.waited
    /\ delivered.calls > 0
    /\ delivered.result = 0
    /\ captureThread.pc = "exited"

\* The capture thread has ended with nothing left open or allocated: the
\* descriptor is closed if the device was opened, the buffer is freed if it
\* was allocated.
ThreadReleased ==
    /\ captureThread.pcm_handle = IF captureThread.exit = "open" THEN "-1" ELSE "closed"
    /\ captureThread.buffer = IF captureThread.exit \in {"open", "calloc"} THEN NULL
                              ELSE "freed"

\* C31: once the stop event is set, and with every blocking read returning,
\* the capture thread ends, after at most one more read and at most one more
\* callback; on each exit path (stop requested, callback error, wait
\* failure, allocation failure, open failure) the thread has closed the
\* sound device if it opened it and has freed the capture buffer.
C31_StopsAndReleases ==
    /\ stopEventSet ~> captureThread.pc = "exited"
    /\ [](/\ captureThread.readsAfterStop <= 1
          /\ captureThread.callsAfterStop <= 1)
    /\ [](captureThread.pc = "exited" =>
            /\ captureThread.exit \in {"stop", "receive", "wait", "calloc", "open"}
            /\ ThreadReleased)
    /\ [](captureThread.pc \in {"wait", "read", "receive"} =>
            /\ captureThread.pcm_handle = "open"
            /\ captureThread.buffer = "allocated")

\* C31's case: the stop event was set while the thread was reading; the
\* thread made one more read and one more callback, saw the event, closed
\* the device, freed the buffer and ended.
C31_Witness ==
    /\ stopEventSet
    /\ captureThread.pc = "exited"
    /\ captureThread.exit = "stop"
    /\ captureThread.readsAfterStop = 1
    /\ captureThread.callsAfterStop = 1
    /\ captureThread.pcm_handle = "closed"
    /\ captureThread.buffer = "freed"

RegNext == RegStep

InitRegistry ==
    /\ RegInit
    /\ DispIdle
    /\ SearchIdle
    /\ MoveIdle
    /\ FindDataIdle
    /\ AttrIdle
    /\ DirIdle
    /\ WideIdle
    /\ AudinIdle

SpecRegistry == InitRegistry /\ [][RegNext]_vars

DispNext == DispStep

RegIdle == RegInit /\ serialAvailable = TRUE

InitDispatch ==
    /\ RegIdle
    /\ DispInit
    /\ SearchIdle
    /\ MoveIdle
    /\ FindDataIdle
    /\ AttrIdle
    /\ DirIdle
    /\ WideIdle
    /\ AudinIdle

SpecDispatch == InitDispatch /\ [][DispNext]_vars

SearchNext == SearchStep

InitSearch ==
    /\ RegIdle
    /\ DispIdle
    /\ SearchInit
    /\ MoveIdle
    /\ FindDataIdle
    /\ AttrIdle
    /\ DirIdle
    /\ WideIdle
    /\ AudinIdle

SpecSearch == InitSearch /\ [][SearchNext]_vars

MoveNext == MoveStep

InitMove ==
    /\ RegIdle
    /\ DispIdle
    /\ SearchIdle
    /\ MoveInit
    /\ FindDataIdle
    /\ AttrIdle
    /\ DirIdle
    /\ WideIdle
    /\ AudinIdle

SpecMove == InitMove /\ [][MoveNext]_vars

FindDataNext == FindDataStep

InitFindData ==
    /\ RegIdle
    /\ DispIdle
    /\ SearchIdle
    /\ MoveIdle
    /\ FindDataIdle
    /\ AttrIdle
    /\ DirIdle
    /\ WideIdle
    /\ AudinIdle

SpecFindData == InitFindData /\ [][FindDataNext]_vars

AttrNext == AttrStep

InitAttr ==
    /\ RegIdle
    /\ DispIdle
    /\ SearchInit
    /\ MoveIdle
    /\ FindDataIdle
    /\ AttrIdle
    /\ DirIdle
    /\ WideIdle
    /\ AudinIdle

SpecAttr == InitAttr /\ [][AttrNext]_vars

DirNext == DirStep

InitDir ==
    /\ RegIdle
    /\ DispIdle
    /\ SearchIdle
    /\ MoveIdle
    /\ FindDataIdle
    /\ AttrIdle
    /\ DirInit
    /\ WideIdle
    /\ AudinIdle

SpecDir == InitDir /\ [][DirNext]_vars

WideNext == WideStep

InitWide ==
    /\ RegIdle
    /\ DispIdle
    /\ SearchIdle
    /\ MoveIdle
    /\ FindDataIdle
    /\ AttrIdle
    /\ DirIdle
    /\ WideIdle
    /\ AudinIdle

SpecWide == InitWide /\ [][WideNext]_vars

AudinNext == AudinStep

InitAudin ==
    /\ RegIdle
    /\ DispIdle
    /\ SearchIdle
    /\ MoveIdle
    /\ FindDataIdle
    /\ AttrIdle
    /\ DirIdle
    /\ WideIdle
    /\ AudinIdle

SpecAudin == InitAudin /\ [][AudinNext]_vars

\* The capture thread is scheduled, and each of its blocking calls returns.
SpecAudinFair == InitAudin /\ [][AudinNext]_vars /\ WF_vars(ThreadStep)

=============================================================================
